---- MODULE Spec2Model ----
(***************************************************************************)
(* The embedded-configuration mechanism of kubesnake (internal/config):    *)
(* the footer codec, the trailer scanner, the loader and the installer,    *)
(* over a small POSIX-like file system (directory entries, inodes, open    *)
(* handles).                                                               *)
(*                                                                         *)
(* A byte is a number 0..255 and a file's content a sequence of bytes.  A  *)
(* uint32 is the set of its bit positions that are 1 (0 is the least       *)
(* significant), so that the 32-bit checksum and the little-endian codec   *)
(* are computed bit for bit.                                               *)
(***************************************************************************)
EXTENDS Integers, Sequences, FiniteSets, TLC

(***************************************************************************)
(* Program constants.                                                      *)
(***************************************************************************)
footerMagic == <<75, 85, 66, 69, 83, 78, 65, 75, 69, 67, 70, 71, 118, 49, 0, 0>>

footerSize == 24

maxConfigSize == 262144

\* os.CreateTemp creates the staged file with permission bits 0600.
createTempMode == 384

exePath == "fakebin"

(***************************************************************************)
(* Bounds of the model.                                                    *)
(***************************************************************************)
\* longest original (base) content drawn for a carrier without trailer
MaxBase == 2

\* longest valid payload handed to the installer
MaxConfig == 2

\* number of calls of the installer in one behaviour
MaxInstalls == 2

BaseBytes == {66, 73}

\* "BINARY": the original content of a target is a prefix of it
BaseText == <<66, 73, 78, 65, 82, 89>>

ConfigBytes == {123, 125}

\* {"a":1}: the longer payloads are prefixes of it
ConfigText == <<123, 34, 97, 34, 58, 49, 125>>

Modes == {493, 448}

TmpNames == {"fakebin.tmp-1", "fakebin.tmp-2"}

\* the bit patterns the test harness flips in one stored payload byte
CorruptMasks == {1, 255}

Procs == {1, 2}

(***************************************************************************)
(* uint32 and bytes.                                                       *)
(***************************************************************************)
RECURSIVE BitsVal(_)
BitsVal(S) ==
    IF S = {} THEN 0
    ELSE LET i == CHOOSE x \in S : TRUE IN 2^i + BitsVal(S \ {i})

BitsOf(n, w) == {i \in 0..(w - 1) : (n \div 2^i) % 2 = 1}

Xor(A, B) == (A \ B) \cup (B \ A)

Shr1(A) == {i - 1 : i \in A \ {0}}

\* uint32(len(config)): a length is below 2^31
Uint32Of(n) == BitsOf(n, 31)

\* int64(ft.length)
Int64Of(u) == BitsVal(u)

\* b ^ mask on one byte
XorByte(b, mask) == BitsVal(Xor(BitsOf(b, 8), BitsOf(mask, 8)))

\* binary.LittleEndian.Uint32(buf): buf[1] holds bits 0..7
Uint32(buf) ==
    UNION {{8 * (k - 1) + i : i \in BitsOf(buf[k], 8)} : k \in 1..4}

\* binary.LittleEndian.PutUint32(buf, v)
PutUint32(v) ==
    [k \in 1..4 |-> BitsVal({i \in 0..7 : (8 * (k - 1) + i) \in v})]

(***************************************************************************)
(* crc32.ChecksumIEEE: reflected CRC-32, polynomial 0xEDB88320, initial    *)
(* value and final xor 0xFFFFFFFF.                                         *)
(***************************************************************************)
IEEE == {31, 30, 29, 27, 26, 24, 23, 21, 20, 19, 15, 9, 8, 5}

AllOnes == 0..31

RECURSIVE crcBits(_, _)
crcBits(c, n) ==
    IF n = 0 THEN c
    ELSE crcBits(IF 0 \in c THEN Xor(Shr1(c), IEEE) ELSE Shr1(c), n - 1)

RECURSIVE crcUpdate(_, _)
crcUpdate(c, p) ==
    IF p = <<>> THEN c
    ELSE LET d == crcBits(Xor(c, BitsOf(Head(p), 8)), 8) IN
         \* the register is a value before the next byte is taken
         IF d = {} THEN crcUpdate({}, Tail(p)) ELSE crcUpdate(d, Tail(p))

ChecksumIEEE(p) == Xor(crcUpdate(AllOnes, p), AllOnes)

(***************************************************************************)
(* Footer codec and trailer scanner (filefooter.go).                       *)
(***************************************************************************)
ZeroFooter == [magic |-> [i \in 1..16 |-> 0], length |-> {}, crc32 |-> {}]

\* a codec that writes the checksum in front of the length
writeFooterSwapped(ft) ==
    ft.magic \o PutUint32(ft.crc32) \o PutUint32(ft.length)

\* the bytes writeFooter hands to w.Write
writeFooter(ft) == ft.magic \o PutUint32(ft.length) \o PutUint32(ft.crc32)

\* io.ReadFull after Seek(off): n bytes at offset off, or a short read
ReadFull(data, off, n) ==
    IF off + n <= Len(data)
    THEN [err |-> "nil", buf |-> SubSeq(data, off + 1, off + n)]
    ELSE [err |-> "EOF", buf |-> <<>>]

\* a scanner without the size check: the seek before the start fails
readFooterNoSizeCheck(data, fileSize) ==
    IF fileSize - footerSize < 0
    THEN [ft |-> ZeroFooter, err |-> "seek footer"]
    ELSE LET rd == ReadFull(data, fileSize - footerSize, footerSize) IN
         IF rd.err # "nil"
         THEN [ft |-> ZeroFooter, err |-> "read footer"]
         ELSE IF SubSeq(rd.buf, 1, 16) # footerMagic
         THEN [ft |-> ZeroFooter, err |-> "no embedded config"]
         ELSE [ft  |-> [magic  |-> SubSeq(rd.buf, 1, 16),
                        length |-> Uint32(SubSeq(rd.buf, 17, 20)),
                        crc32  |-> Uint32(SubSeq(rd.buf, 21, 24))],
               err |-> "nil"]

\* a scanner that decodes the last 24 bytes without comparing the signature
readFooterAnyMagic(data, fileSize) ==
    IF fileSize < footerSize
    THEN [ft |-> ZeroFooter, err |-> "no embedded config"]
    ELSE LET rd == ReadFull(data, fileSize - footerSize, footerSize) IN
         IF rd.err # "nil"
         THEN [ft |-> ZeroFooter, err |-> "read footer"]
         ELSE [ft  |-> [magic  |-> SubSeq(rd.buf, 1, 16),
                        length |-> Uint32(SubSeq(rd.buf, 17, 20)),
                        crc32  |-> Uint32(SubSeq(rd.buf, 21, 24))],
               err |-> "nil"]

\* readFooter(r, fileSize); data is the content of the file behind r
readFooter(data, fileSize) ==
    IF fileSize < footerSize
    THEN [ft |-> ZeroFooter, err |-> "no embedded config"]
    ELSE LET rd == ReadFull(data, fileSize - footerSize, footerSize) IN
         IF rd.err # "nil"
         THEN [ft |-> ZeroFooter, err |-> "read footer"]
         ELSE IF SubSeq(rd.buf, 1, 16) # footerMagic
         THEN [ft |-> ZeroFooter, err |-> "no embedded config"]
         ELSE [ft  |-> [magic  |-> SubSeq(rd.buf, 1, 16),
                        length |-> Uint32(SubSeq(rd.buf, 17, 20)),
                        crc32  |-> Uint32(SubSeq(rd.buf, 21, 24))],
               err |-> "nil"]

\* a base size that is returned without looking at its sign
baseSizeUnchecked(file) ==
    LET size == Len(file.data) IN
    IF size < footerSize
    THEN [baseSize |-> size, mode |-> file.mode, err |-> "nil"]
    ELSE LET rf == readFooter(file.data, size) IN
         IF rf.err = "no embedded config"
         THEN [baseSize |-> size, mode |-> file.mode, err |-> "nil"]
         ELSE IF rf.err # "nil"
         THEN [baseSize |-> 0, mode |-> 0, err |-> rf.err]
         ELSE [baseSize |-> size - footerSize - Int64Of(rf.ft.length),
               mode |-> file.mode, err |-> "nil"]

\* a base size that never strips an installed payload and trailer
baseSizeKeepAll(file) ==
    [baseSize |-> Len(file.data), mode |-> file.mode, err |-> "nil"]

\* a base size that strips only what the loader would accept as a payload:
\* a trailer of length zero or above the limit counts as part of the base
baseSizeAsLoader(file) ==
    LET size == Len(file.data) IN
    IF size < footerSize
    THEN [baseSize |-> size, mode |-> file.mode, err |-> "nil"]
    ELSE LET rf == readFooter(file.data, size) IN
         IF rf.err = "no embedded config"
         THEN [baseSize |-> size, mode |-> file.mode, err |-> "nil"]
         ELSE IF rf.err # "nil"
         THEN [baseSize |-> 0, mode |-> 0, err |-> rf.err]
         ELSE IF rf.ft.length = {} \/ Int64Of(rf.ft.length) > maxConfigSize
         THEN [baseSize |-> size, mode |-> file.mode, err |-> "nil"]
         ELSE LET baseSize == size - footerSize - Int64Of(rf.ft.length) IN
              IF baseSize < 0
              THEN [baseSize |-> 0, mode |-> 0,
                    err |-> "invalid embedded config size"]
              ELSE [baseSize |-> baseSize, mode |-> file.mode, err |-> "nil"]

\* a base size that counts the trailer's own 24 bytes as base
baseSizeOffByFooter(file) ==
    LET size == Len(file.data) IN
    IF size < footerSize
    THEN [baseSize |-> size, mode |-> file.mode, err |-> "nil"]
    ELSE LET rf == readFooter(file.data, size) IN
         IF rf.err = "no embedded config"
         THEN [baseSize |-> size, mode |-> file.mode, err |-> "nil"]
         ELSE IF rf.err # "nil"
         THEN [baseSize |-> 0, mode |-> 0, err |-> rf.err]
         ELSE LET baseSize == size - Int64Of(rf.ft.length) IN
              IF baseSize < 0
              THEN [baseSize |-> 0, mode |-> 0,
                    err |-> "invalid embedded config size"]
              ELSE [baseSize |-> baseSize, mode |-> file.mode, err |-> "nil"]

\* executableBaseSizeAndMode(exePath) on the file the path names
executableBaseSizeAndMode(file) ==
    LET size == Len(file.data) IN
    IF size < footerSize
    THEN [baseSize |-> size, mode |-> file.mode, err |-> "nil"]
    ELSE LET rf == readFooter(file.data, size) IN
         IF rf.err = "no embedded config"
         THEN [baseSize |-> size, mode |-> file.mode, err |-> "nil"]
         ELSE IF rf.err # "nil"
         THEN [baseSize |-> 0, mode |-> 0, err |-> rf.err]
         ELSE LET baseSize == size - footerSize - Int64Of(rf.ft.length) IN
              IF baseSize < 0
              THEN [baseSize |-> 0, mode |-> 0,
                    err |-> "invalid embedded config size"]
              ELSE [baseSize |-> baseSize, mode |-> file.mode, err |-> "nil"]

(***************************************************************************)
(* Loader (load.go).  A []byte is nil or a sequence of bytes.              *)
(***************************************************************************)
Nil == [nil |-> TRUE, b |-> <<>>]

Bytes(b) == [nil |-> FALSE, b |-> b]

Result(raw, ok, err) == [raw |-> raw, ok |-> ok, err |-> err]

NoResult == Result(Nil, FALSE, "none")

Absent == Result(Nil, FALSE, "nil")

\* a loader that does not treat a length of zero as "no configuration"
loadChecksNoZero(rf, size) ==
    IF rf.err = "no embedded config"
    THEN [res |-> Absent, ft |-> rf.ft, off |-> 0]
    ELSE IF rf.err # "nil"
    THEN [res |-> Result(Nil, FALSE, rf.err), ft |-> rf.ft, off |-> 0]
    ELSE IF Int64Of(rf.ft.length) > maxConfigSize
    THEN [res |-> Result(Nil, FALSE, "embedded config too large"),
          ft |-> rf.ft, off |-> 0]
    ELSE LET cfgOffset == size - footerSize - Int64Of(rf.ft.length) IN
         IF cfgOffset < 0
         THEN [res |-> Result(Nil, FALSE, "embedded config offset underflow"),
               ft |-> rf.ft, off |-> 0]
         ELSE [res |-> Result(Nil, FALSE, "pending"),
               ft |-> rf.ft, off |-> cfgOffset]

\* a loader that seeks to the payload without looking at the offset's sign
loadChecksNoUnderflow(rf, size) ==
    IF rf.err = "no embedded config"
    THEN [res |-> Absent, ft |-> rf.ft, off |-> 0]
    ELSE IF rf.err # "nil"
    THEN [res |-> Result(Nil, FALSE, rf.err), ft |-> rf.ft, off |-> 0]
    ELSE IF rf.ft.length = {}
    THEN [res |-> Absent, ft |-> rf.ft, off |-> 0]
    ELSE IF Int64Of(rf.ft.length) > maxConfigSize
    THEN [res |-> Result(Nil, FALSE, "embedded config too large"),
          ft |-> rf.ft, off |-> 0]
    ELSE [res |-> Result(Nil, FALSE, "pending"),
          ft |-> rf.ft, off |-> size - footerSize - Int64Of(rf.ft.length)]

\* a loader that does not compare the length field with maxConfigSize
loadChecksNoLimit(rf, size) ==
    IF rf.err = "no embedded config"
    THEN [res |-> Absent, ft |-> rf.ft, off |-> 0]
    ELSE IF rf.err # "nil"
    THEN [res |-> Result(Nil, FALSE, rf.err), ft |-> rf.ft, off |-> 0]
    ELSE IF rf.ft.length = {}
    THEN [res |-> Absent, ft |-> rf.ft, off |-> 0]
    ELSE LET cfgOffset == size - footerSize - Int64Of(rf.ft.length) IN
         IF cfgOffset < 0
         THEN [res |-> Result(Nil, FALSE, "embedded config offset underflow"),
               ft |-> rf.ft, off |-> 0]
         ELSE [res |-> Result(Nil, FALSE, "pending"),
               ft |-> rf.ft, off |-> cfgOffset]

\* an offset that forgets the trailer's own 24 bytes
loadChecksOffByFooter(rf, size) ==
    IF rf.err = "no embedded config"
    THEN [res |-> Absent, ft |-> rf.ft, off |-> 0]
    ELSE IF rf.err # "nil"
    THEN [res |-> Result(Nil, FALSE, rf.err), ft |-> rf.ft, off |-> 0]
    ELSE IF rf.ft.length = {}
    THEN [res |-> Absent, ft |-> rf.ft, off |-> 0]
    ELSE IF Int64Of(rf.ft.length) > maxConfigSize
    THEN [res |-> Result(Nil, FALSE, "embedded config too large"),
          ft |-> rf.ft, off |-> 0]
    ELSE LET cfgOffset == size - Int64Of(rf.ft.length) IN
         IF cfgOffset < 0
         THEN [res |-> Result(Nil, FALSE, "embedded config offset underflow"),
               ft |-> rf.ft, off |-> 0]
         ELSE [res |-> Result(Nil, FALSE, "pending"),
               ft |-> rf.ft, off |-> cfgOffset]

\* checks in another order: the offset before the limit
loadChecksUnderflowFirst(rf, size) ==
    IF rf.err = "no embedded config"
    THEN [res |-> Absent, ft |-> rf.ft, off |-> 0]
    ELSE IF rf.err # "nil"
    THEN [res |-> Result(Nil, FALSE, rf.err), ft |-> rf.ft, off |-> 0]
    ELSE IF rf.ft.length = {}
    THEN [res |-> Absent, ft |-> rf.ft, off |-> 0]
    ELSE LET cfgOffset == size - footerSize - Int64Of(rf.ft.length) IN
         IF cfgOffset < 0
         THEN [res |-> Result(Nil, FALSE, "embedded config offset underflow"),
               ft |-> rf.ft, off |-> 0]
         ELSE IF Int64Of(rf.ft.length) > maxConfigSize
         THEN [res |-> Result(Nil, FALSE, "embedded config too large"),
               ft |-> rf.ft, off |-> 0]
         ELSE [res |-> Result(Nil, FALSE, "pending"),
               ft |-> rf.ft, off |-> cfgOffset]

\* loadEmbeddedConfigData from the call of readFooter to the offset check:
\* the result to return, or "pending" with the footer and payload offset
loadChecks(rf, size) ==
    IF rf.err = "no embedded config"
    THEN [res |-> Absent, ft |-> rf.ft, off |-> 0]
    ELSE IF rf.err # "nil"
    THEN [res |-> Result(Nil, FALSE, rf.err), ft |-> rf.ft, off |-> 0]
    ELSE IF rf.ft.length = {}
    THEN [res |-> Absent, ft |-> rf.ft, off |-> 0]
    ELSE IF Int64Of(rf.ft.length) > maxConfigSize
    THEN [res |-> Result(Nil, FALSE, "embedded config too large"),
          ft |-> rf.ft, off |-> 0]
    ELSE LET cfgOffset == size - footerSize - Int64Of(rf.ft.length) IN
         IF cfgOffset < 0
         THEN [res |-> Result(Nil, FALSE, "embedded config offset underflow"),
               ft |-> rf.ft, off |-> 0]
         ELSE [res |-> Result(Nil, FALSE, "pending"),
               ft |-> rf.ft, off |-> cfgOffset]

\* a loader that hands back the bytes it read along with its errors
loadPayloadKeepsBytes(data, ft, cfgOffset) ==
    LET rd == ReadFull(data, cfgOffset, Int64Of(ft.length)) IN
    IF rd.err # "nil"
    THEN Result(Bytes(rd.buf), FALSE, "read embedded config")
    ELSE IF ChecksumIEEE(rd.buf) # ft.crc32
    THEN Result(Bytes(rd.buf), FALSE, "embedded config checksum mismatch")
    ELSE Result(Bytes(rd.buf), TRUE, "nil")

\* a loader that returns what it read without comparing the checksum
loadPayloadNoCheck(data, ft, cfgOffset) ==
    LET rd == ReadFull(data, cfgOffset, Int64Of(ft.length)) IN
    IF rd.err # "nil"
    THEN Result(Nil, FALSE, "read embedded config")
    ELSE Result(Bytes(rd.buf), TRUE, "nil")

\* loadEmbeddedConfigData from the seek to the payload to the final return
loadPayload(data, ft, cfgOffset) ==
    LET rd == ReadFull(data, cfgOffset, Int64Of(ft.length)) IN
    IF rd.err # "nil"
    THEN Result(Nil, FALSE, "read embedded config")
    ELSE IF ChecksumIEEE(rd.buf) # ft.crc32
    THEN Result(Nil, FALSE, "embedded config checksum mismatch")
    ELSE Result(Bytes(rd.buf), TRUE, "nil")

\* loadEmbeddedConfigData(exePath) on a file nothing else is writing
loadEmbeddedConfigData(data) ==
    LET size == Len(data) IN
    IF size < footerSize THEN Absent
    ELSE LET c == loadChecks(readFooter(data, size), size) IN
         IF c.res.err # "pending" THEN c.res
         ELSE loadPayload(data, c.ft, c.off)

(***************************************************************************)
(* Configuration schema (config.go) and parseConfigJSON (utils.go), with   *)
(* what encoding/json does on the way: the Decoder reads one value from    *)
(* the stream, checks its syntax, and stores it into the Config struct,    *)
(* matching object keys to the struct's json tags.                         *)
(* A JSON value is [t, s, m]: its type, the bytes of a string or number,   *)
(* and the members [k, v] of an object or the elements of an array.        *)
(* The documents of the model hold no escape sequence, sign, fraction or   *)
(* exponent.                                                               *)
(***************************************************************************)
JNull == [t |-> "null", s |-> <<>>, m |-> <<>>]

JTrue == [t |-> "bool", s |-> <<116, 114, 117, 101>>, m |-> <<>>]

JNum(digits) == [t |-> "num", s |-> digits, m |-> <<>>]

JStr(s) == [t |-> "str", s |-> s, m |-> <<>>]

JObj(members) == [t |-> "obj", s |-> <<>>, m |-> members]

JArr(elems) == [t |-> "arr", s |-> <<>>, m |-> elems]

\* the json tags of Config and E2EConfig: "e2e", "beaconUrl"
e2eTag == <<101, 50, 101>>

beaconUrlTag == <<98, 101, 97, 99, 111, 110, 85, 114, 108>>

\* *E2EConfig: nil, or a pointer to a struct with BeaconURL
NilE2E == [nil |-> TRUE, BeaconURL |-> <<>>]

E2EConfig(url) == [nil |-> FALSE, BeaconURL |-> url]

\* encoding/json isSpace: space, tab, carriage return, line feed
Space == {32, 9, 13, 10}

Digits == 48..57

\* the first position at or after i that holds no space; Len(raw) + 1 if none
SkipSpace(raw, i) ==
    CHOOSE j \in i..(Len(raw) + 1) :
        /\ \A k \in i..(j - 1) : raw[k] \in Space
        /\ j = Len(raw) + 1 \/ raw[j] \notin Space

HasAt(raw, i, lit) ==
    /\ i + Len(lit) - 1 <= Len(raw)
    /\ SubSeq(raw, i, i + Len(lit) - 1) = lit

\* the result of scanning one value: the value and the position after it
ScanErr == [ok |-> FALSE, v |-> JNull, next |-> 0]

Scanned(v, next) == [ok |-> TRUE, v |-> v, next |-> next]

\* a string literal from the quote at i to the next quote
scanString(raw, i) ==
    LET closes == {j \in (i + 1)..Len(raw) : raw[j] = 34} IN
    IF closes = {} THEN ScanErr
    ELSE LET j == CHOOSE x \in closes : \A y \in closes : x <= y
             body == SubSeq(raw, i + 1, j - 1) IN
         IF \E k \in 1..Len(body) : body[k] < 32 \/ body[k] = 92
         THEN ScanErr
         ELSE Scanned(JStr(body), j + 1)

\* a number: "0", or a run of digits that starts with 1..9
scanNumber(raw, i) ==
    IF raw[i] = 48 THEN Scanned(JNum(<<48>>), i + 1)
    ELSE LET j == CHOOSE x \in (i + 1)..(Len(raw) + 1) :
                     /\ \A k \in i..(x - 1) : raw[k] \in Digits
                     /\ x = Len(raw) + 1 \/ raw[x] \notin Digits IN
         Scanned(JNum(SubSeq(raw, i, j - 1)), j)

RECURSIVE scanValue(_, _)
RECURSIVE scanMembers(_, _, _)
RECURSIVE scanElems(_, _, _)

\* the scanner on one value that begins at i (no space at i)
scanValue(raw, i) ==
    IF i > Len(raw) THEN ScanErr
    ELSE IF raw[i] = 123
    THEN LET j == SkipSpace(raw, i + 1) IN
         IF j <= Len(raw) /\ raw[j] = 125
         THEN Scanned(JObj(<<>>), j + 1)
         ELSE scanMembers(raw, j, <<>>)
    ELSE IF raw[i] = 91
    THEN LET j == SkipSpace(raw, i + 1) IN
         IF j <= Len(raw) /\ raw[j] = 93
         THEN Scanned(JArr(<<>>), j + 1)
         ELSE scanElems(raw, j, <<>>)
    ELSE IF raw[i] = 34 THEN scanString(raw, i)
    ELSE IF raw[i] \in Digits THEN scanNumber(raw, i)
    ELSE IF HasAt(raw, i, <<116, 114, 117, 101>>)
    THEN Scanned(JTrue, i + 4)
    ELSE IF HasAt(raw, i, <<102, 97, 108, 115, 101>>)
    THEN Scanned([JTrue EXCEPT !.s = <<102, 97, 108, 115, 101>>], i + 5)
    ELSE IF HasAt(raw, i, <<110, 117, 108, 108>>)
    THEN Scanned(JNull, i + 4)
    ELSE ScanErr

\* the members of an object from the key at i to the closing brace
scanMembers(raw, i, acc) ==
    IF i > Len(raw) \/ raw[i] # 34 THEN ScanErr
    ELSE LET key == scanString(raw, i) IN
    IF ~key.ok THEN ScanErr
    ELSE LET colon == SkipSpace(raw, key.next) IN
    IF colon > Len(raw) \/ raw[colon] # 58 THEN ScanErr
    ELSE LET val == scanValue(raw, SkipSpace(raw, colon + 1)) IN
    IF ~val.ok THEN ScanErr
    ELSE LET e    == SkipSpace(raw, val.next)
             acc2 == Append(acc, [k |-> key.v.s, v |-> val.v]) IN
    IF e > Len(raw) THEN ScanErr
    ELSE IF raw[e] = 125 THEN Scanned(JObj(acc2), e + 1)
    ELSE IF raw[e] = 44 THEN scanMembers(raw, SkipSpace(raw, e + 1), acc2)
    ELSE ScanErr

\* the elements of an array from the value at i to the closing bracket
scanElems(raw, i, acc) ==
    LET val == scanValue(raw, i) IN
    IF ~val.ok THEN ScanErr
    ELSE LET e    == SkipSpace(raw, val.next)
             acc2 == Append(acc, [k |-> <<>>, v |-> val.v]) IN
    IF e > Len(raw) THEN ScanErr
    ELSE IF raw[e] = 93 THEN Scanned(JArr(acc2), e + 1)
    ELSE IF raw[e] = 44 THEN scanElems(raw, SkipSpace(raw, e + 1), acc2)
    ELSE ScanErr

\* encoding/json foldName on ASCII: letters to upper case
foldName(s) ==
    [i \in 1..Len(s) |-> IF s[i] \in 97..122 THEN s[i] - 32 ELSE s[i]]

\* a key names a field if it is the field's tag, exactly or after folding
MatchesField(key, tag) == key = tag \/ foldName(key) = foldName(tag)

\* dec.DisallowUnknownFields(): a key that names no field is an error
unknownField(key) == "json: unknown field"

\* the first error is the one the decoder keeps
Saved(err, new) == IF err # "nil" THEN err ELSE new

\* the members of an object stored into an E2EConfig, in order
RECURSIVE storeE2E(_, _)
storeE2E(members, acc) ==
    IF members = <<>> THEN acc
    ELSE LET mem == Head(members) IN
         storeE2E(Tail(members),
            IF MatchesField(mem.k, beaconUrlTag)
            THEN IF mem.v.t = "str"
                 THEN [acc EXCEPT !.e2e = E2EConfig(mem.v.s)]
                 ELSE IF mem.v.t = "null" THEN acc
                 ELSE [acc EXCEPT !.err = Saved(@, "json: cannot unmarshal")]
            ELSE [acc EXCEPT !.err = Saved(@, unknownField(mem.k))])

\* the members of an object stored into a Config, in order
RECURSIVE storeConfig(_, _)
storeConfig(members, acc) ==
    IF members = <<>> THEN acc
    ELSE LET mem == Head(members) IN
         storeConfig(Tail(members),
            IF MatchesField(mem.k, e2eTag)
            THEN IF mem.v.t = "null"
                 THEN [acc EXCEPT !.e2e = NilE2E]
                 ELSE IF mem.v.t = "obj"
                 THEN storeE2E(mem.v.m,
                               IF acc.e2e.nil
                               THEN [acc EXCEPT !.e2e = E2EConfig(<<>>)]
                               ELSE acc)
                 ELSE [e2e |-> IF acc.e2e.nil THEN E2EConfig(<<>>)
                               ELSE acc.e2e,
                       err |-> Saved(acc.err, "json: cannot unmarshal")]
            ELSE [acc EXCEPT !.err = Saved(@, unknownField(mem.k))])

\* dec.Decode(&cfg) once the value is read: null leaves the struct as it
\* is, an object is stored field by field, anything else is a type error
decodeConfig(v) ==
    IF v.t = "null" THEN [e2e |-> NilE2E, err |-> "nil"]
    ELSE IF v.t = "obj" THEN storeConfig(v.m, [e2e |-> NilE2E, err |-> "nil"])
    ELSE [e2e |-> NilE2E, err |-> "json: cannot unmarshal"]

\* (*Config, error): the pointer is nil when there is an error
NilConfig(err) == [nil |-> TRUE, E2E |-> NilE2E, err |-> err]

Config(e2e) == [nil |-> FALSE, E2E |-> e2e, err |-> "nil"]

\* a parser that does not look at what follows the first value
parseConfigJSONFirstOnly(raw) ==
    LET i == SkipSpace(raw, 1) IN
    IF i > Len(raw) THEN NilConfig("config is not valid JSON: EOF")
    ELSE LET sc == scanValue(raw, i) IN
    IF ~sc.ok THEN NilConfig("config is not valid JSON: syntax")
    ELSE LET d == decodeConfig(sc.v) IN
    IF d.err # "nil" THEN NilConfig("config is not valid JSON: " \o d.err)
    ELSE Config(d.e2e)

\* parseConfigJSON(raw)
parseConfigJSON(raw) ==
    LET i == SkipSpace(raw, 1) IN
    IF i > Len(raw) THEN NilConfig("config is not valid JSON: EOF")
    ELSE LET sc == scanValue(raw, i) IN
    IF ~sc.ok THEN NilConfig("config is not valid JSON: syntax")
    ELSE LET d == decodeConfig(sc.v) IN
    IF d.err # "nil" THEN NilConfig("config is not valid JSON: " \o d.err)
    ELSE LET j == SkipSpace(raw, sc.next) IN
    IF j > Len(raw) THEN Config(d.e2e)
    ELSE IF scanValue(raw, j).ok
    THEN NilConfig("config is not valid JSON: trailing data")
    ELSE NilConfig("config is not valid JSON: syntax")

(***************************************************************************)
(* State.                                                                  *)
(***************************************************************************)
VARIABLES
    dir,        \* the directory: file name -> inode
    inodes,     \* inode -> [data, mode]
    inst,       \* per process: the frame of EmbedConfigDataIntoExecutable
    ld,         \* the frame and last result of loadEmbeddedConfigData
    scan,       \* last results of readFooter and executableBaseSizeAndMode,
                \* the footer last handed to writeFooter, the document last
                \* parsed and the result of parsing it, the result of
                \* LoadEmbeddedConfigFromExecutable, the conditions of the
                \* last call made under failing reads and seeks
    orig,       \* history: the file the behaviour started from
    ncalls,     \* history: number of calls of the installer so far
    entry,      \* history: per process, what the current/last call found
    staged,     \* history: per process, the call created a staged file
    hist,       \* history: the successful installs, [config, out]
    dirty,      \* history: the harness altered the payload since the last install
    committed,  \* history: the complete contents the path was given
    faults,     \* environment: system calls may fail (full disk, permissions)
    lastRename  \* history: the payload of the install that renamed last

vars == <<dir, inodes, inst, ld, scan, orig, ncalls, entry, staged, hist, dirty,
          committed, faults, lastRename>>

NoIno == 0

InstIdle(err) ==
    [pc |-> "idle", config |-> <<>>, baseSize |-> 0, mode |-> 0, src |-> NoIno,
     tmp |-> NoIno, tmpPath |-> "", err |-> err]

LdIdle(res) ==
    [pc |-> "idle", f |-> NoIno, size |-> 0, ft |-> ZeroFooter, off |-> 0,
     res |-> res]

NoScan == [rf |-> [ft |-> ZeroFooter, err |-> "none"],
           bs |-> [baseSize |-> 0, mode |-> 0, err |-> "none"],
           ft |-> ZeroFooter, wrote |-> FALSE,
           doc |-> [wf |-> FALSE, v |-> JNull, body |-> <<>>, pre |-> <<>>,
                    post |-> <<>>],
           pr |-> NilConfig("none"), cfg |-> NilConfig("none"),
           io |-> [fail |-> "none", size |-> 0]]

NoEntry == [len |-> 0, data |-> <<>>, mode |-> 0, names |-> {}]

FileAt(path) == inodes[dir[path]]

\* the inodes a directory entry or an open handle still refers to
Live(d, i, l) ==
    {d[n] : n \in DOMAIN d} \cup {i[p].src : p \in Procs}
        \cup {i[p].tmp : p \in Procs} \cup {l.f}

Collect(nodes, live) == [n \in (DOMAIN nodes) \cap live |-> nodes[n]]

FreshIno == CHOOSE n \in 1..(Cardinality(DOMAIN inodes) + 1) : n \notin DOMAIN inodes

Unlink(d, name) == [n \in (DOMAIN d) \ {name} |-> d[n]]

(***************************************************************************)
(* Initial files.                                                          *)
(***************************************************************************)
SeqsUpTo(S, n) == UNION {[1..k -> S] : k \in 0..n}

PlainFiles == SeqsUpTo(BaseBytes, MaxBase)

\* original contents of the targets that are installed on
BaseFiles == {SubSeq(BaseText, 1, k) : k \in 0..MaxBase}

\* every payload of one byte, and one payload of each length up to MaxConfig
ValidConfigs ==
    {<<b>> : b \in ConfigBytes} \cup {SubSeq(ConfigText, 1, k) : k \in 1..MaxConfig}

TooLarge == [i \in 1..(maxConfigSize + 1) |-> 123]

Configs == ValidConfigs \cup {<<>>, TooLarge}

Trailer(magic, length, crc) ==
    writeFooter([magic |-> magic, length |-> Uint32Of(length), crc32 |-> crc])

\* what a correct install of config over base bytes F leaves at the path
Carrier(F, config) ==
    F \o config \o Trailer(footerMagic, Len(config), ChecksumIEEE(config))

BadMagics ==
    {[footerMagic EXCEPT ![1] = 107], [footerMagic EXCEPT ![16] = 1]}

\* files that end in 24 bytes with the signature but were not written by the
\* installer: any length field, right or wrong checksum
ForgedLengths == {0, 1, 2, 1234, maxConfigSize, maxConfigSize + 1}

LastBytes(F, n) == IF n <= Len(F) THEN SubSeq(F, Len(F) - n + 1, Len(F)) ELSE <<>>

Forged(F, magic) ==
    UNION {{F \o Trailer(magic, L, c) : c \in {{}, ChecksumIEEE(LastBytes(F, L))}} :
              L \in ForgedLengths}

\* 23 bytes: one byte short of a trailer
Undersized ==
    {SubSeq(Trailer(footerMagic, 0, {}), 1, footerSize - 1),
     SubSeq(Trailer(footerMagic, 1, {}), 2, footerSize)}

\* the files an install starts from: plain files, a carrier, and files with a
\* trailer of length zero, with a wrong checksum, with too large a length
LifecycleFiles ==
    BaseFiles
        \cup {Carrier(<<66>>, <<123>>)}
        \cup {<<66>> \o Trailer(footerMagic, L, {}) : L \in {0, 1, 2, 1234}}
        \cup {<<66>> \o Trailer(m, 1, {}) : m \in BadMagics}

\* the state before any call, on one of the files, in an environment where
\* system calls may fail (env) or never do
InitEnv(files, env) ==
    /\ faults = env
    /\ lastRename = <<>>
    /\ orig \in [data : files, mode : Modes]
    /\ dir = (exePath :> 1)
    /\ inodes = (1 :> orig)
    /\ inst = [p \in Procs |-> InstIdle("none")]
    /\ ld = LdIdle(NoResult)
    /\ scan = NoScan
    /\ ncalls = 0
    /\ entry = [p \in Procs |-> NoEntry]
    /\ staged = [p \in Procs |-> FALSE]
    /\ hist = <<>>
    /\ dirty = FALSE
    /\ committed = {orig.data}

InitWith(files) == InitEnv(files, TRUE)

Init == InitWith(LifecycleFiles)

(***************************************************************************)
(* Installer: EmbedConfigDataIntoExecutable, one action per step.          *)
(***************************************************************************)
\* a return that leaves the staged file behind
ReturnNoRemove(p, err, nodes) ==
    /\ inst' = [inst EXCEPT ![p] = InstIdle(err)]
    /\ dir' = dir
    /\ inodes' = Collect(nodes, Live(dir', inst', ld'))

\* a return whose cleanup removes every file but the target
ReturnRemoveOthers(p, err, nodes) ==
    /\ inst' = [inst EXCEPT ![p] = InstIdle(err)]
    /\ dir' = [n \in {exePath} |-> dir[n]]
    /\ inodes' = Collect(nodes, Live(dir', inst', ld'))

\* return err: the deferred tmp.Close, os.Remove(tmpPath) and src.Close run
Return(p, err, nodes) ==
    /\ inst' = [inst EXCEPT ![p] = InstIdle(err)]
    /\ dir' = Unlink(dir, inst[p].tmpPath)
    /\ inodes' = Collect(nodes, Live(dir', inst', ld'))

\* continue with the next step
Goto(p, frame, d, nodes) ==
    /\ inst' = [inst EXCEPT ![p] = frame]
    /\ dir' = d
    /\ inodes' = Collect(nodes, Live(dir', inst', ld'))

\* a call that lets the empty payload through
EmbedCallNoCheck(p, config) ==
    /\ inst[p].pc = "idle"
    /\ ncalls < MaxInstalls
    /\ ncalls' = ncalls + 1
    /\ ld' = IF ld.pc = "idle" THEN LdIdle(NoResult) ELSE ld
    /\ IF Len(config) > maxConfigSize
       THEN Return(p, "config too large", inodes)
       ELSE Goto(p, [inst[p] EXCEPT !.pc = "base", !.config = config,
                                    !.err = "none"], dir, inodes)
    /\ entry' = [entry EXCEPT ![p] =
                   [len |-> Len(config), data |-> FileAt(exePath).data,
                    mode |-> FileAt(exePath).mode, names |-> DOMAIN dir]]
    /\ staged' = [staged EXCEPT ![p] = FALSE]
    /\ UNCHANGED <<faults, lastRename, scan, orig, hist, dirty, committed>>

\* lines 43-49: the call and the two checks of the payload's length
EmbedCall(p, config) ==
    /\ inst[p].pc = "idle"
    /\ ncalls < MaxInstalls
    /\ ncalls' = ncalls + 1
    /\ ld' = IF ld.pc = "idle" THEN LdIdle(NoResult) ELSE ld
    /\ IF Len(config) = 0
       THEN Return(p, "config is empty", inodes)
       ELSE IF Len(config) > maxConfigSize
       THEN Return(p, "config too large", inodes)
       ELSE Goto(p, [inst[p] EXCEPT !.pc = "base", !.config = config,
                                    !.err = "none"], dir, inodes)
    /\ entry' = [entry EXCEPT ![p] =
                   [len |-> Len(config), data |-> FileAt(exePath).data,
                    mode |-> FileAt(exePath).mode, names |-> DOMAIN dir]]
    /\ staged' = [staged EXCEPT ![p] = FALSE]
    /\ UNCHANGED <<faults, lastRename, scan, orig, hist, dirty, committed>>

\* lines 51-55: executableBaseSizeAndMode(exePath)
EmbedBase(p) ==
    /\ inst[p].pc = "base"
    /\ UNCHANGED <<faults, lastRename, ld, scan, orig, ncalls, entry, staged,
                   hist, dirty, committed>>
    /\ \/ faults /\ Return(p, "open executable", inodes)
       \/ LET r == executableBaseSizeAndMode(FileAt(exePath)) IN
          IF r.err # "nil"
          THEN Return(p, r.err, inodes)
          ELSE Goto(p, [inst[p] EXCEPT !.pc = "open", !.baseSize = r.baseSize,
                                       !.mode = r.mode], dir, inodes)

\* lines 57-61: src, err := os.Open(exePath)
EmbedOpen(p) ==
    /\ inst[p].pc = "open"
    /\ UNCHANGED <<faults, lastRename, ld, scan, orig, ncalls, entry, staged,
                   hist, dirty, committed>>
    /\ \/ faults /\ Return(p, "open executable", inodes)
       \/ Goto(p, [inst[p] EXCEPT !.pc = "createtemp", !.src = dir[exePath]],
               dir, inodes)

\* writes that land in the file at the target path, not in the staged file
WriteToTarget(nodes, ino, bytes) ==
    [nodes EXCEPT ![dir[exePath]].data = nodes[dir[exePath]].data \o bytes]

\* tmp.Write, and the writes of io.CopyN and writeFooter, through the handle
WriteTo(nodes, ino, bytes) ==
    [nodes EXCEPT ![ino].data = nodes[ino].data \o bytes]

\* lines 63-73: os.CreateTemp(dir, base+".tmp-*") and the deferred cleanup
EmbedCreateTemp(p) ==
    /\ inst[p].pc = "createtemp"
    /\ UNCHANGED <<faults, lastRename, ld, scan, orig, ncalls, entry, hist,
                   dirty, committed>>
    /\ \/ /\ faults
          /\ Return(p, "create temp file", inodes)
          /\ UNCHANGED staged
       \/ \E name \in TmpNames \ DOMAIN dir :
            /\ staged' = [staged EXCEPT ![p] = TRUE]
            /\ Goto(p, [inst[p] EXCEPT !.pc = "chmod", !.tmp = FreshIno,
                                       !.tmpPath = name],
                    [n \in (DOMAIN dir) \cup {name} |->
                        IF n = name THEN FreshIno ELSE dir[n]],
                    [n \in (DOMAIN inodes) \cup {FreshIno} |->
                        IF n = FreshIno
                        THEN [data |-> <<>>, mode |-> createTempMode]
                        ELSE inodes[n]])

\* a chmod that leaves the staged file as os.CreateTemp made it
ChmodSkip(nodes, ino, mode) == nodes

\* tmp.Chmod(mode), os.Chmod(exePath, mode)
Chmod(nodes, ino, mode) == [nodes EXCEPT ![ino].mode = mode]

\* lines 75-78: tmp.Chmod(mode)
EmbedChmod(p) ==
    /\ inst[p].pc = "chmod"
    /\ UNCHANGED <<faults, lastRename, ld, scan, orig, ncalls, entry, staged,
                   hist, dirty, committed>>
    /\ \/ faults /\ Return(p, "chmod temp executable", inodes)
       \/ Goto(p, [inst[p] EXCEPT !.pc = "copy"], dir,
               Chmod(inodes, inst[p].tmp, inst[p].mode))

\* lines 80-83: io.CopyN(tmp, src, baseSize)
EmbedCopy(p) ==
    /\ inst[p].pc = "copy"
    /\ UNCHANGED <<faults, lastRename, ld, scan, orig, ncalls, entry, staged,
                   hist, dirty, committed>>
    /\ LET srcData == inodes[inst[p].src].data IN
       \/ faults /\ Return(p, "copy executable bytes", inodes)
       \/ IF Len(srcData) < inst[p].baseSize
          THEN Return(p, "copy executable bytes", inodes)
          ELSE Goto(p, [inst[p] EXCEPT !.pc = "writeconfig"], dir,
                    WriteTo(inodes, inst[p].tmp,
                            SubSeq(srcData, 1, inst[p].baseSize)))

\* a payload write that is followed by the rename at once
EmbedWriteConfigThenRename(p) ==
    /\ inst[p].pc = "writeconfig"
    /\ UNCHANGED <<faults, lastRename, ld, scan, orig, ncalls, entry, staged,
                   hist, dirty, committed>>
    /\ \/ faults /\ Return(p, "write embedded config", inodes)
       \/ Goto(p, [inst[p] EXCEPT !.pc = "rename"], dir,
               WriteTo(inodes, inst[p].tmp, inst[p].config))

\* lines 85-88: tmp.Write(config)
EmbedWriteConfig(p) ==
    /\ inst[p].pc = "writeconfig"
    /\ UNCHANGED <<faults, lastRename, ld, scan, orig, ncalls, entry, staged,
                   hist, dirty, committed>>
    /\ \/ faults /\ Return(p, "write embedded config", inodes)
       \/ Goto(p, [inst[p] EXCEPT !.pc = "writefooter"], dir,
               WriteTo(inodes, inst[p].tmp, inst[p].config))

\* lines 90-100: build the footer and writeFooter(tmp, ft)
EmbedWriteFooter(p) ==
    /\ inst[p].pc = "writefooter"
    /\ UNCHANGED <<faults, lastRename, ld, scan, orig, ncalls, entry, staged,
                   hist, dirty, committed>>
    /\ LET ft == [magic  |-> footerMagic,
                  length |-> Uint32Of(Len(inst[p].config)),
                  crc32  |-> ChecksumIEEE(inst[p].config)] IN
       \/ faults /\ Return(p, "write footer", inodes)
       \/ Goto(p, [inst[p] EXCEPT !.pc = "sync"], dir,
               WriteTo(inodes, inst[p].tmp, writeFooter(ft)))

\* lines 102-105: tmp.Sync()
EmbedSync(p) ==
    /\ inst[p].pc = "sync"
    /\ UNCHANGED <<faults, lastRename, ld, scan, orig, ncalls, entry, staged,
                   hist, dirty, committed>>
    /\ \/ faults /\ Return(p, "sync temp executable", inodes)
       \/ Goto(p, [inst[p] EXCEPT !.pc = "close"], dir, inodes)

\* lines 107-110: tmp.Close()
EmbedClose(p) ==
    /\ inst[p].pc = "close"
    /\ UNCHANGED <<faults, lastRename, ld, scan, orig, ncalls, entry, staged,
                   hist, dirty, committed>>
    /\ \/ faults /\ Return(p, "close temp executable", inodes)
       \/ Goto(p, [inst[p] EXCEPT !.pc = "rename", !.tmp = NoIno], dir, inodes)

\* the bytes a correct install leaves, from what the call found at the path
ExpectedOut(p) ==
    LET b == executableBaseSizeAndMode([data |-> entry[p].data, mode |-> 0]) IN
    Carrier(SubSeq(entry[p].data, 1, b.baseSize), inst[p].config)

\* lines 112-115: os.Rename(tmpPath, exePath)
EmbedRename(p) ==
    /\ inst[p].pc = "rename"
    /\ UNCHANGED <<faults, ld, scan, orig, ncalls, entry, staged, hist>>
    /\ \/ /\ (faults \/ inst[p].tmpPath \notin DOMAIN dir)
          /\ Return(p, "replace executable", inodes)
          /\ UNCHANGED <<dirty, committed, lastRename>>
       \/ /\ inst[p].tmpPath \in DOMAIN dir
          /\ dirty' = FALSE
          /\ committed' = committed \cup {ExpectedOut(p)}
          /\ lastRename' = inst[p].config
          /\ Goto(p, [inst[p] EXCEPT !.pc = "finish"],
                  [n \in (DOMAIN dir) \ {inst[p].tmpPath} |->
                      IF n = exePath THEN dir[inst[p].tmpPath] ELSE dir[n]],
                  inodes)

\* lines 117-121: best-effort os.Chmod(exePath, mode), return nil, and the
\* deferred calls
EmbedFinish(p) ==
    /\ inst[p].pc = "finish"
    /\ UNCHANGED <<faults, lastRename, ld, scan, orig, ncalls, entry, staged,
                   dirty, committed>>
    /\ \E chmodOk \in (IF faults THEN BOOLEAN ELSE {TRUE}) :
         LET nodes == IF chmodOk
                      THEN Chmod(inodes, dir[exePath], inst[p].mode)
                      ELSE inodes IN
         /\ hist' = Append(hist, [config |-> inst[p].config,
                                  out    |-> nodes[dir[exePath]].data,
                                  mode   |-> nodes[dir[exePath]].mode,
                                  pre    |-> entry[p].data,
                                  premode |-> entry[p].mode])
         /\ Return(p, "nil", nodes)

EmbedStep(p) ==
    \/ EmbedBase(p)
    \/ EmbedOpen(p)
    \/ EmbedCreateTemp(p)
    \/ EmbedChmod(p)
    \/ EmbedCopy(p)
    \/ EmbedWriteConfig(p)
    \/ EmbedWriteFooter(p)
    \/ EmbedSync(p)
    \/ EmbedClose(p)
    \/ EmbedRename(p)
    \/ EmbedFinish(p)

(***************************************************************************)
(* Loader actions.                                                         *)
(***************************************************************************)
\* loadEmbeddedConfigData(exePath), the whole call
Load ==
    /\ ld.pc = "idle"
    /\ ld' = LdIdle(loadEmbeddedConfigData(FileAt(exePath).data))
    /\ UNCHANGED <<faults, lastRename, dir, inodes, inst, scan, orig, ncalls, entry,
                   staged, hist, dirty, committed>>

\* readFooter on the file at the path, with the file's size
ReadFooterCall ==
    /\ scan' = [scan EXCEPT !.rf = readFooter(FileAt(exePath).data,
                                             Len(FileAt(exePath).data))]
    /\ UNCHANGED <<faults, lastRename, dir, inodes, inst, ld, orig, ncalls, entry,
                   staged, hist, dirty, committed>>

\* executableBaseSizeAndMode(exePath), the whole call
BaseSizeCall ==
    /\ scan' = [scan EXCEPT !.bs = executableBaseSizeAndMode(FileAt(exePath))]
    /\ UNCHANGED <<faults, lastRename, dir, inodes, inst, ld, orig, ncalls, entry,
                   staged, hist, dirty, committed>>

(***************************************************************************)
(* The test harness alters one byte of the stored payload in place          *)
(* (TestReadFromExecutable_ChecksumMismatch).                              *)
(***************************************************************************)
Idle == \A p \in Procs : inst[p].pc = "idle"

PayloadRegion ==
    LET size == Len(FileAt(exePath).data)
        n    == Len(hist[Len(hist)].config) IN
    (size - footerSize - n + 1)..(size - footerSize)

Corrupt(pos, mask) ==
    /\ Idle
    /\ ld.pc = "idle"
    /\ hist # <<>>
    /\ ~dirty
    /\ pos \in PayloadRegion
    /\ LET data == FileAt(exePath).data
           new  == [data EXCEPT ![pos] = XorByte(data[pos], mask)] IN
       /\ inodes' = [inodes EXCEPT ![dir[exePath]].data = new]
       /\ committed' = committed \cup {new}
    /\ dirty' = TRUE
    /\ ld' = LdIdle(NoResult)
    /\ UNCHANGED <<faults, lastRename, dir, inst, scan, orig, ncalls, entry,
                   staged, hist>>

(***************************************************************************)
(* Sequential use: one caller installs, loads and (in the tests) corrupts. *)
(***************************************************************************)
Next ==
    \/ \E config \in Configs :
          Idle /\ ld.pc = "idle" /\ ~dirty /\ EmbedCall(1, config)
    \/ EmbedStep(1)
    \/ Idle /\ Load
    \/ \E pos \in 1..(MaxBase + MaxConfig), mask \in CorruptMasks :
          Corrupt(pos, mask)

Spec == Init /\ [][Next]_vars

(***************************************************************************)
(* The loader step by step, as another process runs it while an install    *)
(* is in progress: each step reads the file behind the handle it opened.   *)
(***************************************************************************)
\* lines 47-59: os.Open, f.Stat and the size check
LoadOpen ==
    /\ ld.pc = "idle"
    /\ LET f == dir[exePath]
           size == Len(inodes[f].data) IN
       ld' = IF size < footerSize
             THEN LdIdle(Absent)
             ELSE [LdIdle(NoResult) EXCEPT !.pc = "footer", !.f = f, !.size = size]
    /\ UNCHANGED <<faults, lastRename, dir, inst, scan, orig, ncalls, entry,
                   staged, hist, dirty, committed>>
    /\ inodes' = Collect(inodes, Live(dir', inst', ld'))

\* lines 61-86: readFooter and the checks of the length and the offset
LoadFooter ==
    /\ ld.pc = "footer"
    /\ LET c == loadChecks(readFooter(inodes[ld.f].data, ld.size), ld.size) IN
       ld' = IF c.res.err # "pending"
             THEN LdIdle(c.res)
             ELSE [ld EXCEPT !.pc = "payload", !.ft = c.ft, !.off = c.off]
    /\ UNCHANGED <<faults, lastRename, dir, inst, scan, orig, ncalls, entry,
                   staged, hist, dirty, committed>>
    /\ inodes' = Collect(inodes, Live(dir', inst', ld'))

\* lines 88-104: seek, read the payload, compare the checksum, return
LoadPayload ==
    /\ ld.pc = "payload"
    /\ ld' = LdIdle(loadPayload(inodes[ld.f].data, ld.ft, ld.off))
    /\ UNCHANGED <<faults, lastRename, dir, inst, scan, orig, ncalls, entry,
                   staged, hist, dirty, committed>>
    /\ inodes' = Collect(inodes, Live(dir', inst', ld'))

ConcFiles ==
    {SubSeq(BaseText, 1, MaxBase), Carrier(<<66>>, <<125>>),
     <<66>> \o Trailer(footerMagic, 1, {})}

InitConc == InitWith(ConcFiles)

NextConc ==
    \/ \E config \in ValidConfigs : EmbedCall(1, config)
    \/ EmbedStep(1)
    \/ LoadOpen
    \/ LoadFooter
    \/ LoadPayload

SpecConc == InitConc /\ [][NextConc]_vars

(***************************************************************************)
(* Two installers on the same target, their steps interleaved in any      *)
(* order; no system call fails for a reason of the environment.            *)
(***************************************************************************)
RaceFiles == {SubSeq(BaseText, 1, MaxBase), Carrier(<<66>>, <<125>>)}

InitRace == InitEnv(RaceFiles, FALSE)

NextRace ==
    \E p \in Procs :
       \/ \E config \in ValidConfigs : EmbedCall(p, config)
       \/ EmbedStep(p)

SpecRace == InitRace /\ [][NextRace]_vars

(***************************************************************************)
(* The scanner and the loader as functions of the file: every file of a    *)
(* family of plain, undersized, forged and installed files is scanned.      *)
(***************************************************************************)
ScanBases == PlainFiles \cup {[i \in 1..footerSize |-> 66]}

ScanFiles ==
    ScanBases
        \cup Undersized
        \cup {SubSeq(footerMagic, 1, k) : k \in {15, 16}}
        \cup {Carrier(F, c) : F \in PlainFiles, c \in ValidConfigs}
        \cup UNION {Forged(F, footerMagic) : F \in ScanBases}
        \cup UNION {Forged(F, m) : F \in ScanBases, m \in BadMagics}
        \cup {footerMagic \o F \o [i \in 1..footerSize |-> 0] : F \in PlainFiles}

InitScan == InitWith(ScanFiles)

NextScan ==
    \/ Load
    \/ ReadFooterCall
    \/ BaseSizeCall

SpecScan == InitScan /\ [][NextScan]_vars

(***************************************************************************)
(* The footer codec: writeFooter appends a footer to a buffer, readFooter  *)
(* reads the buffer's last 24 bytes (TestWriteFooter_ReadFooter_RoundTrip). *)
(***************************************************************************)
\* uint32 values: 0, 1, 123, 456, 262144, 2^31, 2^32 - 1 and one with the
\* lowest and highest bit of every byte set
FooterValues ==
    {{}, {0}, Uint32Of(123), Uint32Of(456), Uint32Of(maxConfigSize), {31},
     0..31, {0, 7, 8, 15, 16, 23, 24, 31}}

Footers ==
    [magic : {footerMagic} \cup BadMagics, length : FooterValues,
     crc32 : FooterValues]

\* writeFooter(w, ft) on the buffer, once
WriteFooterCall(ft) ==
    /\ ~scan.wrote
    /\ inodes' = WriteTo(inodes, dir[exePath], writeFooter(ft))
    /\ scan' = [NoScan EXCEPT !.ft = ft, !.wrote = TRUE]
    /\ committed' = committed \cup {inodes'[dir[exePath]].data}
    /\ UNCHANGED <<faults, lastRename, dir, inst, ld, orig, ncalls, entry,
                   staged, hist, dirty>>

InitCodec == InitWith(PlainFiles)

NextCodec ==
    \/ \E ft \in Footers : WriteFooterCall(ft)
    \/ ReadFooterCall

SpecCodec == InitCodec /\ [][NextCodec]_vars

(***************************************************************************)
(* The strict parser: LoadConfigFromFile on a family of documents, each a  *)
(* JSON value written out, with bytes in front of it and after it, or a     *)
(* text that is no JSON value.                                             *)
(***************************************************************************)
RECURSIVE Render(_)
RECURSIVE RenderMembers(_, _)

\* the bytes of a JSON value, without any space
Render(v) ==
    IF v.t = "null" THEN <<110, 117, 108, 108>>
    ELSE IF v.t = "str" THEN <<34>> \o v.s \o <<34>>
    ELSE IF v.t = "obj" THEN <<123>> \o RenderMembers(v.m, TRUE) \o <<125>>
    ELSE IF v.t = "arr" THEN <<91>> \o RenderMembers(v.m, FALSE) \o <<93>>
    ELSE v.s

RenderMembers(ms, keyed) ==
    IF ms = <<>> THEN <<>>
    ELSE (IF keyed THEN <<34>> \o Head(ms).k \o <<34, 58>> ELSE <<>>)
            \o Render(Head(ms).v)
            \o (IF Len(ms) > 1 THEN <<44>> ELSE <<>>)
            \o RenderMembers(Tail(ms), keyed)

Member(k, v) == [k |-> k, v |-> v]

\* "http://x", "http://example"
UrlText == <<104, 116, 116, 112, 58, 47, 47, 120>>

ExampleUrl ==
    <<104, 116, 116, 112, 58, 47, 47, 101, 120, 97, 109, 112, 108, 101>>

\* keys: "extra", "another", "E2E", "BeaconURL"
extraKey == <<101, 120, 116, 114, 97>>

anotherKey == <<97, 110, 111, 116, 104, 101, 114>>

e2eUpperKey == <<69, 50, 69>>

beaconUpperKey == <<66, 101, 97, 99, 111, 110, 85, 82, 76>>

TopKeys == {e2eTag, e2eUpperKey, extraKey}

NestedKeys == {beaconUrlTag, beaconUpperKey, extraKey}

JOne == JNum(<<49>>)

\* the values found under a top-level key
E2EValues ==
    {JNull, JOne, JObj(<<>>), JObj(<<Member(beaconUrlTag, JOne)>>)}
        \cup {JObj(<<Member(nk, JStr(UrlText))>>) : nk \in NestedKeys}
        \cup {JObj(<<Member(beaconUrlTag, JStr(UrlText)), Member(nk, JOne)>>) :
                 nk \in NestedKeys \ {beaconUrlTag}}

DocValues ==
    {JNull, JTrue, JOne, JStr(UrlText), JObj(<<>>),
     JArr(<<Member(<<>>, JOne)>>)}
        \cup {JObj(<<Member(tk, ev)>>) : tk \in TopKeys, ev \in E2EValues}
        \cup {JObj(<<Member(e2eTag, ev), Member(xk, JTrue)>>) :
                 ev \in E2EValues, xk \in TopKeys \ {e2eTag}}
        \cup {JObj(<<Member(extraKey, JTrue), Member(e2eTag, ev)>>) :
                 ev \in E2EValues}

Leading == {<<>>, <<32, 10>>}

\* what follows the first value: nothing, space, a second document, stray
\* tokens, the beginning of a second document
Trailing ==
    {<<>>, <<10>>, <<32>>, <<9, 13, 10>>,
     <<32>> \o Render(JObj(<<Member(anotherKey, JOne)>>)),
     Render(JObj(<<>>)), <<10, 110, 117, 108, 108>>,
     <<125>>, <<120>>, <<44>>, <<32, 123>>}

\* the document of TestLoadConfigFromFile_Valid, with its line breaks
PrettyBody ==
    <<123, 10, 32, 32, 34, 101, 50, 101, 34, 58, 32, 123, 32,
      34, 98, 101, 97, 99, 111, 110, 85, 114, 108, 34, 58, 32,
      34, 104, 116, 116, 112, 58, 47, 47, 101, 120, 97, 109, 112, 108, 101, 34,
      32, 125, 10, 125>>

PrettyValue ==
    JObj(<<Member(e2eTag, JObj(<<Member(beaconUrlTag, JStr(ExampleUrl))>>))>>)

\* texts that are no JSON value: nothing, "{", {"e2e", {"e2e":}, {"e2e":{},
\* {"e2e":{},}, {e2e:1}
Malformed ==
    {<<>>, <<123>>,
     <<123, 34, 101, 50, 101, 34>>,
     <<123, 34, 101, 50, 101, 34, 58, 125>>,
     <<123, 34, 101, 50, 101, 34, 58, 123, 125>>,
     <<123, 34, 101, 50, 101, 34, 58, 123, 125, 44, 125>>,
     <<123, 101, 50, 101, 58, 49, 125>>}

Docs ==
    [wf : {TRUE}, v : {PrettyValue}, body : {PrettyBody}, pre : {<<>>},
     post : {<<>>, <<10>>}]
        \cup UNION {[wf : {TRUE}, v : {v}, body : {Render(v)}, pre : Leading,
                     post : Trailing] : v \in DocValues}
        \cup [wf : {FALSE}, v : {JNull}, body : Malformed, pre : Leading,
              post : {<<>>, <<10>>}]

\* LoadConfigFromFile(cfgPath) on a file with these bytes, once
LoadConfigFromFile(doc) ==
    /\ scan.pr.err = "none"
    /\ \/ /\ faults
          /\ scan' = [scan EXCEPT !.doc = doc,
                                  !.pr = NilConfig("read config file")]
       \/ scan' = [scan EXCEPT !.doc = doc,
                               !.pr = parseConfigJSON(doc.pre \o doc.body
                                                          \o doc.post)]
    /\ UNCHANGED <<faults, lastRename, dir, inodes, inst, ld, orig, ncalls,
                   entry, staged, hist, dirty, committed>>

InitParse == InitWith({<<>>})

NextParse == \E doc \in Docs : LoadConfigFromFile(doc)

SpecParse == InitParse /\ [][NextParse]_vars

(***************************************************************************)
(* The loader step by step on a file nothing is writing: every file of     *)
(* the scanned family and files with a length field of zero under any      *)
(* checksum field.                                                         *)
(***************************************************************************)
ZeroLengthCrcs == {Uint32Of(456), 0..31}

ZeroLengthFiles ==
    UNION {{F \o writeFooter([magic |-> footerMagic, length |-> {},
                              crc32 |-> c]) :
               c \in ZeroLengthCrcs \cup {ChecksumIEEE(LastBytes(F, MaxBase))}} :
              F \in ScanBases}

LoadFiles == ScanFiles \cup ZeroLengthFiles

InitLoad == InitWith(LoadFiles)

NextLoad ==
    \/ LoadOpen
    \/ LoadFooter
    \/ LoadPayload

SpecLoad == InitLoad /\ [][NextLoad]_vars

(***************************************************************************)
(* Installing from a configuration file and loading through the public     *)
(* entry point: EmbedConfigFileIntoExecutable reads the file, has the       *)
(* strict parser check its bytes and hands the same bytes to                *)
(* EmbedConfigDataIntoExecutable; LoadEmbeddedConfigFromExecutable parses   *)
(* what loadEmbeddedConfigData returns.                                     *)
(***************************************************************************)
\* the bytes of a configuration file
DocBytes(doc) == doc.pre \o doc.body \o doc.post

Doc(v, pre, post) ==
    [wf |-> TRUE, v |-> v, body |-> Render(v), pre |-> pre, post |-> post]

\* {"e2e":{"beaconUrl":"http://example"},"extra":true}
UnknownFieldValue ==
    JObj(<<Member(e2eTag, JObj(<<Member(beaconUrlTag, JStr(ExampleUrl))>>)),
           Member(extraKey, JTrue)>>)

\* the files given to EmbedConfigFileIntoExecutable: the two of the tests
\* (indented with a final line feed, and with an unknown field), {} with
\* space around it, null, a document followed by a second one, a document
\* cut short, and the empty file
FileDocs ==
    {[wf |-> TRUE, v |-> PrettyValue, body |-> PrettyBody, pre |-> <<>>,
      post |-> <<10>>],
     Doc(JObj(<<>>), <<32, 10>>, <<10>>),
     Doc(JNull, <<>>, <<>>),
     Doc(UnknownFieldValue, <<>>, <<>>),
     Doc(JObj(<<>>), <<>>, Render(JObj(<<>>))),
     [wf |-> FALSE, v |-> JNull, body |-> <<123>>, pre |-> <<>>, post |-> <<>>],
     [wf |-> FALSE, v |-> JNull, body |-> <<>>, pre |-> <<>>, post |-> <<>>]}

\* a call that does not have the parser look at the file
EmbedConfigFileNoValidate(p, doc) ==
    /\ inst[p].pc = "idle"
    /\ ncalls < MaxInstalls
    /\ ncalls' = ncalls + 1
    /\ ld' = IF ld.pc = "idle" THEN LdIdle(NoResult) ELSE ld
    /\ entry' = [entry EXCEPT ![p] =
                   [len |-> Len(DocBytes(doc)), data |-> FileAt(exePath).data,
                    mode |-> FileAt(exePath).mode, names |-> DOMAIN dir]]
    /\ staged' = [staged EXCEPT ![p] = FALSE]
    /\ UNCHANGED <<faults, lastRename, orig, hist, dirty, committed>>
    /\ LET raw == DocBytes(doc) IN
       /\ scan' = [scan EXCEPT !.doc = doc, !.pr = parseConfigJSON(raw),
                               !.cfg = NilConfig("none")]
       /\ IF Len(raw) = 0
          THEN Return(p, "config is empty", inodes)
          ELSE Goto(p, [inst[p] EXCEPT !.pc = "base", !.config = raw,
                                       !.err = "none"], dir, inodes)

\* a call that embeds the parsed value written out again
EmbedConfigFileRendered(p, doc) ==
    /\ inst[p].pc = "idle"
    /\ ncalls < MaxInstalls
    /\ ncalls' = ncalls + 1
    /\ ld' = IF ld.pc = "idle" THEN LdIdle(NoResult) ELSE ld
    /\ entry' = [entry EXCEPT ![p] =
                   [len |-> Len(DocBytes(doc)), data |-> FileAt(exePath).data,
                    mode |-> FileAt(exePath).mode, names |-> DOMAIN dir]]
    /\ staged' = [staged EXCEPT ![p] = FALSE]
    /\ UNCHANGED <<faults, lastRename, orig, hist, dirty, committed>>
    /\ LET raw == DocBytes(doc)
           pr  == parseConfigJSON(raw) IN
       /\ scan' = [scan EXCEPT !.doc = doc, !.pr = pr,
                               !.cfg = NilConfig("none")]
       /\ IF pr.err # "nil"
          THEN Return(p, "invalid config", inodes)
          ELSE Goto(p, [inst[p] EXCEPT !.pc = "base", !.config = Render(doc.v),
                                       !.err = "none"], dir, inodes)

\* part_002 lines 26-38, and lines 43-49 of the function it ends in:
\* os.ReadFile(cfgPath), parseConfigJSON(raw), then
\* EmbedConfigDataIntoExecutable(exePath, raw) up to its checks of the length
EmbedConfigFileIntoExecutable(p, doc) ==
    /\ inst[p].pc = "idle"
    /\ ncalls < MaxInstalls
    /\ ncalls' = ncalls + 1
    /\ ld' = IF ld.pc = "idle" THEN LdIdle(NoResult) ELSE ld
    /\ entry' = [entry EXCEPT ![p] =
                   [len |-> Len(DocBytes(doc)), data |-> FileAt(exePath).data,
                    mode |-> FileAt(exePath).mode, names |-> DOMAIN dir]]
    /\ staged' = [staged EXCEPT ![p] = FALSE]
    /\ UNCHANGED <<faults, lastRename, orig, hist, dirty, committed>>
    /\ \/ /\ faults
          /\ scan' = [scan EXCEPT !.doc = doc,
                                  !.pr = NilConfig("read config file"),
                                  !.cfg = NilConfig("none")]
          /\ Return(p, "read config file", inodes)
       \/ LET raw == DocBytes(doc)
              pr  == parseConfigJSON(raw) IN
          /\ scan' = [scan EXCEPT !.doc = doc, !.pr = pr,
                                  !.cfg = NilConfig("none")]
          /\ IF pr.err # "nil"
             THEN Return(p, "invalid config", inodes)
             ELSE IF Len(raw) = 0
             THEN Return(p, "config is empty", inodes)
             ELSE IF Len(raw) > maxConfigSize
             THEN Return(p, "config too large", inodes)
             ELSE Goto(p, [inst[p] EXCEPT !.pc = "base", !.config = raw,
                                          !.err = "none"], dir, inodes)

\* a public loader that reports a parse failure as no configuration
LoadFromExecutableLenient(data) ==
    LET r == loadEmbeddedConfigData(data) IN
    IF r.err # "nil" THEN NilConfig(r.err)
    ELSE IF ~r.ok THEN NilConfig("nil")
    ELSE LET c == parseConfigJSON(r.raw.b) IN
         IF c.err # "nil" THEN NilConfig("nil") ELSE c

\* load.go lines 32-42: LoadEmbeddedConfigFromExecutable(exePath)
LoadEmbeddedConfigFromExecutable(data) ==
    LET r == loadEmbeddedConfigData(data) IN
    IF r.err # "nil" THEN NilConfig(r.err)
    ELSE IF ~r.ok THEN NilConfig("nil")
    ELSE parseConfigJSON(r.raw.b)

\* a load that cuts the trailer off the file it has read
LoadFromExecutableConsuming ==
    /\ ld.pc = "idle"
    /\ ld' = LdIdle(loadEmbeddedConfigData(FileAt(exePath).data))
    /\ scan' = [scan EXCEPT !.cfg =
                   LoadEmbeddedConfigFromExecutable(FileAt(exePath).data)]
    /\ inodes' = [inodes EXCEPT ![dir[exePath]].data =
                     SubSeq(@, 1, IF Len(@) < footerSize THEN Len(@)
                                  ELSE Len(@) - footerSize)]
    /\ UNCHANGED <<faults, lastRename, dir, inst, orig, ncalls, entry,
                   staged, hist, dirty, committed>>

\* the call of LoadEmbeddedConfigFromExecutable on the path; the result of
\* the loadEmbeddedConfigData inside it is kept as well
LoadFromExecutable ==
    /\ ld.pc = "idle"
    /\ ld' = LdIdle(loadEmbeddedConfigData(FileAt(exePath).data))
    /\ scan' = [scan EXCEPT !.cfg =
                   LoadEmbeddedConfigFromExecutable(FileAt(exePath).data)]
    /\ UNCHANGED <<faults, lastRename, dir, inodes, inst, orig, ncalls, entry,
                   staged, hist, dirty, committed>>

\* the targets: plain files, carriers of a document and of a payload that
\* is no document, a trailer with a wrong checksum, a trailer of length zero
FileTargets ==
    {SubSeq(BaseText, 1, MaxBase),
     Carrier(<<66>>, Render(JObj(<<>>))), Carrier(<<66>>, <<123>>),
     <<66>> \o Trailer(footerMagic, 1, {}),
     <<66>> \o Trailer(footerMagic, 0, {})}

InitFile == InitWith(FileTargets)

NextFile ==
    \/ \E doc \in FileDocs : Idle /\ EmbedConfigFileIntoExecutable(1, doc)
    \/ EmbedStep(1)
    \/ Idle /\ LoadFromExecutable

SpecFile == InitFile /\ [][NextFile]_vars

(***************************************************************************)
(* The read-only entry points as whole calls on a file nothing is writing:  *)
(* the loader's family of files and carriers of documents.                  *)
(***************************************************************************)
AcceptedDocs == {d \in FileDocs : parseConfigJSON(DocBytes(d)).err = "nil"}

ReadFiles ==
    LoadFiles \cup {Carrier(F, DocBytes(d)) : F \in BaseFiles, d \in AcceptedDocs}

InitRead == InitWith(ReadFiles)

NextRead ==
    \/ LoadFromExecutable
    \/ BaseSizeCall
    \/ ReadFooterCall

SpecRead == InitRead /\ [][NextRead]_vars

(***************************************************************************)
(* The scanner under failing system calls.  A reader r is the bytes of the  *)
(* file behind it and what fails on it: nothing, the seek, or the read.     *)
(* The size a caller passes is the one f.Stat() gave, which the file need    *)
(* no longer have when it is read.                                          *)
(***************************************************************************)
IOFails == {"none", "seek", "read"}

Reader(data, fail) == [data |-> data, fail |-> fail]

\* a scanner that reports a failed seek or read as the sentinel
readFooterIOAsAbsent(r, fileSize) ==
    IF fileSize < footerSize
    THEN [ft |-> ZeroFooter, err |-> "no embedded config"]
    ELSE IF r.fail # "none"
    THEN [ft |-> ZeroFooter, err |-> "no embedded config"]
    ELSE LET rf == readFooter(r.data, fileSize) IN
         IF rf.err = "read footer"
         THEN [ft |-> ZeroFooter, err |-> "no embedded config"]
         ELSE rf

\* filefooter.go lines 62-84: readFooter(r, fileSize) on a reader whose Seek
\* or Read may fail
readFooterIO(r, fileSize) ==
    IF fileSize < footerSize
    THEN [ft |-> ZeroFooter, err |-> "no embedded config"]
    ELSE IF r.fail = "seek"
    THEN [ft |-> ZeroFooter, err |-> "seek footer"]
    ELSE IF r.fail = "read"
    THEN [ft |-> ZeroFooter, err |-> "read footer"]
    ELSE readFooter(r.data, fileSize)

\* load.go lines 53-104: loadEmbeddedConfigData from f.Stat() on, size being
\* st.Size()
loadEmbeddedConfigDataIO(r, size) ==
    IF size < footerSize THEN Absent
    ELSE LET c == loadChecks(readFooterIO(r, size), size) IN
         IF c.res.err # "pending" THEN c.res
         ELSE loadPayload(r.data, c.ft, c.off)

\* filefooter.go lines 35-58: executableBaseSizeAndMode from f.Stat() on
executableBaseSizeAndModeIO(r, mode, size) ==
    IF size < footerSize
    THEN [baseSize |-> size, mode |-> mode, err |-> "nil"]
    ELSE LET rf == readFooterIO(r, size) IN
         IF rf.err = "no embedded config"
         THEN [baseSize |-> size, mode |-> mode, err |-> "nil"]
         ELSE IF rf.err # "nil"
         THEN [baseSize |-> 0, mode |-> 0, err |-> rf.err]
         ELSE LET baseSize == size - footerSize - Int64Of(rf.ft.length) IN
              IF baseSize < 0
              THEN [baseSize |-> 0, mode |-> 0,
                    err |-> "invalid embedded config size"]
              ELSE [baseSize |-> baseSize, mode |-> mode, err |-> "nil"]

\* the sizes f.Stat() may have given for a file that now has n bytes: the
\* file has grown by one byte, is unchanged, or has been cut by one byte or
\* by a trailer's length
StatSizes(n) == {s \in {n - 1, n, n + 1, n + footerSize} : s >= 0}

\* one call of each function under the conditions [fail, size]; the state
\* keeps the result of the last call with its conditions
ReadFooterIOCall(fail, size) ==
    /\ scan' = [NoScan EXCEPT
                  !.io = [fail |-> fail, size |-> size],
                  !.rf = readFooterIO(Reader(FileAt(exePath).data, fail), size)]
    /\ ld' = LdIdle(NoResult)
    /\ UNCHANGED <<faults, lastRename, dir, inodes, inst, orig, ncalls, entry,
                   staged, hist, dirty, committed>>

LoadIOCall(fail, size) ==
    /\ scan' = [NoScan EXCEPT !.io = [fail |-> fail, size |-> size]]
    /\ ld' = LdIdle(loadEmbeddedConfigDataIO(
                       Reader(FileAt(exePath).data, fail), size))
    /\ UNCHANGED <<faults, lastRename, dir, inodes, inst, orig, ncalls, entry,
                   staged, hist, dirty, committed>>

BaseSizeIOCall(fail, size) ==
    /\ scan' = [NoScan EXCEPT
                  !.io = [fail |-> fail, size |-> size],
                  !.bs = executableBaseSizeAndModeIO(
                            Reader(FileAt(exePath).data, fail),
                            FileAt(exePath).mode, size)]
    /\ ld' = LdIdle(NoResult)
    /\ UNCHANGED <<faults, lastRename, dir, inodes, inst, orig, ncalls, entry,
                   staged, hist, dirty, committed>>

IOFiles ==
    SeqsUpTo(BaseBytes, 1)
        \cup Undersized
        \cup {Carrier(F, c) : F \in BaseFiles, c \in ValidConfigs}
        \cup UNION {Forged(<<66>>, m) : m \in {footerMagic} \cup BadMagics}

InitIO == InitWith(IOFiles)

NextIO ==
    \E fail \in IOFails, size \in StatSizes(Len(FileAt(exePath).data)) :
       \/ ReadFooterIOCall(fail, size)
       \/ LoadIOCall(fail, size)
       \/ BaseSizeIOCall(fail, size)

SpecIO == InitIO /\ [][NextIO]_vars

(***************************************************************************)
(* Installs over files that end in a signed trailer the loader does not     *)
(* accept: a length of zero, a payload that fails its checksum, a payload   *)
(* longer than the limit.  No system call fails.                            *)
(***************************************************************************)
\* a carrier of 262145 payload bytes after one base byte
OversizedCarrier ==
    <<66>> \o TooLarge \o Trailer(footerMagic, maxConfigSize + 1, {})

StripFiles ==
    {<<66>> \o Trailer(footerMagic, 0, c) : c \in {{}, Uint32Of(456)}}
        \cup {<<66, 120>> \o Trailer(footerMagic, 1, {}), OversizedCarrier}

\* the payloads installed over them: one byte, and the longest
StripConfigs == {<<125>>, SubSeq(ConfigText, 1, MaxConfig)}

InitStrip == InitEnv(StripFiles, FALSE)

NextStrip ==
    \/ \E config \in StripConfigs :
          Idle /\ ld.pc = "idle" /\ EmbedCall(1, config)
    \/ EmbedStep(1)
    \/ Idle /\ Load
    \/ Idle /\ BaseSizeCall

SpecStrip == InitStrip /\ [][NextStrip]_vars

(***************************************************************************)
(* The directory of the tests: the target and, next to it, the              *)
(* configuration file (t.TempDir() with fakebin and config.json).           *)
(***************************************************************************)
cfgPath == "config.json"

cfgMode == 420

cfgFile == [data |-> PrettyBody \o <<10>>, mode |-> cfgMode]

DirFiles == BaseFiles \cup {Carrier(<<66>>, <<123>>), <<66>> \o Trailer(footerMagic, 2, {})}

InitDir ==
    /\ faults = TRUE
    /\ lastRename = <<>>
    /\ orig \in [data : DirFiles, mode : Modes]
    /\ dir = (exePath :> 1) @@ (cfgPath :> 2)
    /\ inodes = (1 :> orig) @@ (2 :> cfgFile)
    /\ inst = [p \in Procs |-> InstIdle("none")]
    /\ ld = LdIdle(NoResult)
    /\ scan = NoScan
    /\ ncalls = 0
    /\ entry = [p \in Procs |-> NoEntry]
    /\ staged = [p \in Procs |-> FALSE]
    /\ hist = <<>>
    /\ dirty = FALSE
    /\ committed = {orig.data}

NextDir ==
    \/ \E config \in Configs : Idle /\ EmbedCall(1, config)
    \/ EmbedStep(1)

SpecDir == InitDir /\ [][NextDir]_vars

(***************************************************************************)
(* Properties.                                                             *)
(***************************************************************************)
LastInstall == hist[Len(hist)]

Loaded == ld.pc = "idle" /\ ld.res.err # "none"

NoTrailer(data) == readFooter(data, Len(data)).err = "no embedded config"

\* C1: round trip. Once an install of payload P has returned nil, a load of
\* the path returns (P, true, nil), whatever file the install started from.
C1_RoundTrip ==
    (Idle /\ inst[1].err = "nil" /\ ~dirty /\ Loaded)
        => /\ Len(LastInstall.config) \in 1..maxConfigSize
           /\ ld.res = Result(Bytes(LastInstall.config), TRUE, "nil")

\* a load after a successful install over a file that already had a trailer
C1_Witness ==
    /\ Idle /\ inst[1].err = "nil" /\ ~dirty /\ Loaded
    /\ ~NoTrailer(orig.data)
    /\ ld.res.ok

\* C2: re-install replaces. Starting from a file F without recognised
\* trailer, after the n-th successful install the file is F, the last payload
\* and its trailer; its size is |F| + |Pn| + 24; a load returns Pn.
C2_ReplaceNotStack ==
    (Idle /\ hist # <<>> /\ ~dirty /\ NoTrailer(orig.data))
        => LET Pn == LastInstall.config
               data == FileAt(exePath).data IN
           /\ data = orig.data \o Pn
                       \o Trailer(footerMagic, Len(Pn), ChecksumIEEE(Pn))
           /\ Len(data) = Len(orig.data) + Len(Pn) + 24
           /\ SubSeq(data, 1, Len(orig.data)) = orig.data
           /\ LastInstall.out = data
           /\ Loaded => ld.res = Result(Bytes(Pn), TRUE, "nil")

\* two installs of different payloads, then a load
C2_Witness ==
    /\ Idle /\ Len(hist) = 2 /\ ~dirty /\ NoTrailer(orig.data)
    /\ hist[1].config # hist[2].config
    /\ Len(hist[1].config) # Len(hist[2].config)
    /\ Loaded

RejectErrs == {"config is empty", "config too large"}

\* C3: a call with a payload of length 0 or above 262144 returns an error in
\* the step that makes the call, and that step changes no file's bytes or
\* mode, no directory entry, and stages no file.
C3_RejectBeforeMutation ==
    [][(ncalls' = ncalls + 1
          /\ (entry'[1].len = 0 \/ entry'[1].len > maxConfigSize))
        => /\ inst'[1].pc = "idle"
           /\ inst'[1].err \in RejectErrs
           /\ dir' = dir
           /\ inodes' = inodes
           /\ ~staged'[1]
           /\ TmpNames \cap DOMAIN dir' = {}]_vars

\* both rejections returned
C3_WitnessEmpty == Idle /\ entry[1].len = 0 /\ inst[1].err = "config is empty"

C3_Witness ==
    /\ Idle /\ entry[1].len = maxConfigSize + 1
    /\ inst[1].err = "config too large"
    /\ FileAt(exePath) = [data |-> entry[1].data, mode |-> entry[1].mode]

\* C4: after one byte of the stored payload of an installed carrier was
\* changed, a load returns the checksum-mismatch error, ok = false and nil.
C4_CorruptionDetected ==
    (dirty /\ Loaded)
        => ld.res = Result(Nil, FALSE, "embedded config checksum mismatch")

C4_Witness ==
    /\ dirty /\ Loaded
    /\ ld.res.err = "embedded config checksum mismatch"
    /\ FileAt(exePath).data # LastInstall.out

\* C5: a call that returns an error leaves no staged file and leaves the
\* target's bytes and mode as the call found them.
C5_FailureCleanup ==
    [][\A p \in Procs :
         (inst[p].pc # "idle" /\ inst'[p].pc = "idle" /\ inst'[p].err # "nil")
           => /\ TmpNames \cap DOMAIN dir' = {}
              /\ DOMAIN dir' = entry[p].names
              /\ inodes'[dir'[exePath]]
                   = [data |-> entry[p].data, mode |-> entry[p].mode]]_vars

\* the rename failed after the file was staged, and the call has returned
C5_Witness ==
    /\ Idle /\ staged[1] /\ inst[1].err = "replace executable"
    /\ DOMAIN dir = {exePath}

\* C7: the file at the target path has the permission bits the original file
\* had, after every successful install and at every step of an install.
C7_ModePreserved ==
    /\ FileAt(exePath).mode = orig.mode
    /\ \A i \in DOMAIN hist : hist[i].mode = hist[i].premode

C7_Witness ==
    /\ Idle /\ Len(hist) = 2 /\ inst[1].err = "nil"
    /\ orig.mode # createTempMode

\* C8: installing the same payload twice in a row leaves after the second
\* install the bytes the first install left.
C8_Idempotent ==
    \A i \in DOMAIN hist :
        (i > 1 /\ hist[i].config = hist[i - 1].config)
            => /\ hist[i].out = hist[i - 1].out
               /\ (Idle /\ i = Len(hist) /\ ~dirty)
                     => FileAt(exePath).data = hist[i - 1].out

C8_Witness ==
    /\ Idle /\ Len(hist) = 2 /\ hist[1].config = hist[2].config
    /\ inst[1].err = "nil"

\* C6: while an install is in progress the target path, and every file a
\* reader opened through it, holds one complete content: what the install
\* found or base, payload and trailer; a load that runs meanwhile returns
\* what a load of one of these complete contents returns.
C6_AtomicVisibility ==
    /\ FileAt(exePath).data \in committed
    /\ ld.f # NoIno => inodes[ld.f].data \in committed
    /\ Loaded => \E d \in committed : ld.res = loadEmbeddedConfigData(d)
    /\ (Loaded /\ ld.res.err \in {"embedded config checksum mismatch",
                                  "embedded config offset underflow",
                                  "read footer", "read embedded config"})
          => ld.res = loadEmbeddedConfigData(orig.data)

\* a reader that opened the path before the rename reads the payload after it
C6_WitnessOld ==
    /\ inst[1].pc = "finish"
    /\ ld.pc = "payload"
    /\ ld.f # dir[exePath]

\* a load has returned the new payload after the rename and before the
\* install returned, and a load of the content the install found differs
C6_Witness ==
    /\ inst[1].pc = "finish"
    /\ Loaded /\ ld.res.ok
    /\ ld.res.raw = Bytes(inst[1].config)
    /\ loadEmbeddedConfigData(entry[1].data) # ld.res

ScanAbsent ==
    /\ Loaded => ld.res = Absent
    /\ scan.rf.err # "none"
         => scan.rf = [ft |-> ZeroFooter, err |-> "no embedded config"]
    /\ scan.bs.err # "none"
         => scan.bs = [baseSize |-> Len(orig.data), mode |-> orig.mode,
                       err |-> "nil"]

ScannedAll == Loaded /\ scan.rf.err # "none" /\ scan.bs.err # "none"

\* C9: for a file of fewer than 24 bytes the loader returns (nil, false, nil),
\* readFooter the no-embedded-config sentinel, and the base size is the
\* file's size.
C9_UndersizedAbsent ==
    Len(FileAt(exePath).data) < footerSize => ScanAbsent

\* a file of 23 bytes that starts with the signature
C9_Witness ==
    /\ Len(FileAt(exePath).data) = footerSize - 1
    /\ SubSeq(FileAt(exePath).data, 1, 16) = footerMagic
    /\ ScannedAll

MagicAtTail(data) ==
    SubSeq(data, Len(data) - footerSize + 1, Len(data) - footerSize + 16)

\* C10: for a file of 24 bytes or more whose last 24 bytes do not begin with
\* the signature, readFooter returns the sentinel with a zero footer, the
\* loader returns (nil, false, nil) and the base size is the file's size,
\* whatever the length and checksum positions hold.
C10_MagicMismatchAbsent ==
    (Len(FileAt(exePath).data) >= footerSize
        /\ MagicAtTail(FileAt(exePath).data) # footerMagic)
      => ScanAbsent

\* the signature is off by one byte and the length and checksum positions
\* would pass every check of the loader
C10_Witness ==
    LET data == FileAt(exePath).data IN
    /\ Len(data) > footerSize
    /\ MagicAtTail(data) \in BadMagics
    /\ Uint32(SubSeq(data, Len(data) - 7, Len(data) - 4)) = Uint32Of(1)
    /\ Uint32(SubSeq(data, Len(data) - 3, Len(data)))
         = ChecksumIEEE(<<data[Len(data) - footerSize]>>)
    /\ ScannedAll


\* the fields of the last 24 bytes of a file of at least 24 bytes
LengthField(data) == Uint32(SubSeq(data, Len(data) - 7, Len(data) - 4))

ChecksumField(data) == Uint32(SubSeq(data, Len(data) - 3, Len(data)))

SignedTrailer(data) ==
    Len(data) >= footerSize /\ MagicAtTail(data) = footerMagic

\* C11: zero-length trailer. A file that ends in a trailer with the
\* signature and a length field of zero loads as (nil, false, nil), the
\* result of a file with no trailer, whatever the checksum field and the
\* bytes before the trailer are; the loader never goes on to the payload.
C11_ZeroLengthAbsent ==
    (SignedTrailer(FileAt(exePath).data)
        /\ LengthField(FileAt(exePath).data) = {})
    => /\ ld.pc # "payload"
       /\ Loaded => ld.res = Absent

\* a file with bytes before a zero-length trailer whose checksum field is
\* not zero has been loaded
C11_Witness ==
    /\ SignedTrailer(FileAt(exePath).data)
    /\ LengthField(FileAt(exePath).data) = {}
    /\ ChecksumField(FileAt(exePath).data) # {}
    /\ Len(FileAt(exePath).data) > footerSize
    /\ Loaded
    /\ ld.res = Absent

\* a signed trailer whose length field is within the limit but larger than
\* the number of bytes in front of the trailer
UnderflowTrailer(data) ==
    /\ SignedTrailer(data)
    /\ LengthField(data) # {}
    /\ Int64Of(LengthField(data)) <= maxConfigSize
    /\ Int64Of(LengthField(data)) > Len(data) - footerSize

\* C12: underflow. On a file whose signed trailer has a length field L with
\* 1 <= L <= 262144 and L > size - 24, the loader returns the hard error
\* (nil, false, "embedded config offset underflow") and never reaches the
\* seek and read of the payload; on no file does it seek to a negative
\* offset.
C12_UnderflowError ==
    /\ UnderflowTrailer(FileAt(exePath).data)
       => /\ ld.pc # "payload"
          /\ Loaded => ld.res = Result(Nil, FALSE,
                                       "embedded config offset underflow")
    /\ ld.pc = "payload" => ld.off >= 0

\* a file with bytes in front of a trailer that claims one byte more than
\* there is has been loaded
C12_Witness ==
    /\ UnderflowTrailer(FileAt(exePath).data)
    /\ Len(FileAt(exePath).data) > footerSize
    /\ Int64Of(LengthField(FileAt(exePath).data))
          = Len(FileAt(exePath).data) - footerSize + 1
    /\ Loaded
    /\ ld.res.err = "embedded config offset underflow"

\* a signed trailer whose length field is larger than the number of bytes in
\* front of the trailer
CorruptBase(data) ==
    /\ SignedTrailer(data)
    /\ Int64Of(LengthField(data)) > Len(data) - footerSize

\* C13: corrupt base. When the target ends in a signed trailer whose length
\* field exceeds size - 24, executableBaseSizeAndMode returns "invalid
\* embedded config size", and an install stops there: it never gets past the
\* base-size step, creates no staged file, returns an error, and the path
\* holds the bytes and mode it held before, alone in its directory.
C13_CorruptBaseRejected ==
    CorruptBase(orig.data)
    => /\ executableBaseSizeAndMode(FileAt(exePath)).err
             = "invalid embedded config size"
       /\ inst[1].pc \in {"idle", "base"}
       /\ ~staged[1]
       /\ inst[1].err # "nil"
       /\ hist = <<>>
       /\ FileAt(exePath) = orig
       /\ DOMAIN dir = {exePath}

\* an install of a payload of legal length on such a target has returned the
\* error of the base-size step
C13_Witness ==
    /\ CorruptBase(orig.data)
    /\ Idle
    /\ entry[1].len \in 1..maxConfigSize
    /\ inst[1].err = "invalid embedded config size"
    /\ FileAt(exePath) = orig

\* a signed trailer whose length field is above the limit
OverLimitTrailer(data) ==
    /\ SignedTrailer(data)
    /\ Int64Of(LengthField(data)) > maxConfigSize

\* C14: bounded read. On a file whose signed trailer has a length field above
\* 262144 the loader returns (nil, false, "embedded config too large") and
\* never reaches the allocation and read of the payload; on every file the
\* payload read it does reach is of 1..262144 bytes at an offset inside the
\* file, and the bytes it returns are at most 262144.
C14_BoundedRead ==
    /\ OverLimitTrailer(FileAt(exePath).data)
       => /\ ld.pc # "payload"
          /\ Loaded => ld.res = Result(Nil, FALSE, "embedded config too large")
    /\ ld.pc = "payload"
       => /\ Int64Of(ld.ft.length) \in 1..maxConfigSize
          /\ ld.off + Int64Of(ld.ft.length) = ld.size - footerSize
    /\ (Loaded /\ ld.res.ok) => Len(ld.res.raw.b) <= maxConfigSize

\* a file with bytes in front of a trailer whose length field is one above
\* the limit has been loaded and refused
C14_Witness ==
    /\ OverLimitTrailer(FileAt(exePath).data)
    /\ Int64Of(LengthField(FileAt(exePath).data)) = maxConfigSize + 1
    /\ Len(FileAt(exePath).data) > footerSize
    /\ Loaded
    /\ ld.res.err = "embedded config too large"

\* C15: no partial data. Whenever the loader returns ok = true, the error is
\* nil, the file ends in a signed trailer with a length field L, 1 <= L <=
\* 262144, the bytes returned are the file's bytes [size-24-L, size-24), and
\* their CRC-32 is the trailer's checksum field; whenever it returns
\* ok = false the byte slice is nil.
C15_NoPartialData ==
    Loaded
    => IF ld.res.ok
       THEN LET data == FileAt(exePath).data IN
            /\ ld.res.err = "nil"
            /\ ~ld.res.raw.nil
            /\ SignedTrailer(data)
            /\ LengthField(data) # {}
            /\ Int64Of(LengthField(data)) <= maxConfigSize
            /\ Int64Of(LengthField(data)) <= Len(data) - footerSize
            /\ ld.res.raw.b
                  = SubSeq(data,
                           Len(data) - footerSize
                               - Int64Of(LengthField(data)) + 1,
                           Len(data) - footerSize)
            /\ ChecksumIEEE(ld.res.raw.b) = ChecksumField(data)
       ELSE ld.res.raw = Nil

\* a load has returned two bytes with ok = true
C15_Witness ==
    /\ Loaded
    /\ ld.res.ok
    /\ Len(ld.res.raw.b) = 2

\* a load of a file whose payload bytes do not match the checksum field has
\* returned ok = false
C15_WitnessRefused ==
    /\ Loaded
    /\ ~ld.res.ok
    /\ ld.res.err = "embedded config checksum mismatch"

\* C16: single observable mutation. In every step of an install, the only
\* file whose bytes or mode change is the staged file behind the installer's
\* own handle, which is not the file at the target path; the bytes, the mode
\* and the file the target path names change in no step but the rename.
C16_SingleMutation ==
    [][inst' # inst
       => /\ \A n \in (DOMAIN inodes) \cap (DOMAIN inodes') :
                inodes'[n] # inodes[n]
                => (n = inst[1].tmp /\ n # dir[exePath])
          /\ (dir'[exePath] # dir[exePath] \/ FileAt(exePath)' # FileAt(exePath))
             => (inst[1].pc = "rename" /\ inst'[1].pc = "finish")]_vars

\* the rename has put the staged file at the path, whose bytes are now the
\* new carrier and no longer what the call found
C16_Witness ==
    /\ inst[1].pc = "finish"
    /\ FileAt(exePath).data # entry[1].data
    /\ FileAt(exePath).data = ExpectedOut(1)

\* the base bytes of the file the behaviour started from
OrigBase ==
    SubSeq(orig.data, 1, executableBaseSizeAndMode(orig).baseSize)

\* each of the two processes has made one call and both calls have returned
BothReturned ==
    /\ Idle
    /\ ncalls = 2
    /\ \A p \in Procs : entry[p].len > 0

\* C17: last writer wins. Two installs on the same target, interleaved in
\* any order with no failing system call: once both have returned, both
\* returned nil and the path holds F ++ X ++ trailer(X), F the base bytes
\* the behaviour started from and X the payload of the install that renamed
\* last.
C17_LastWriterWins ==
    BothReturned
    => /\ \A p \in Procs : inst[p].err = "nil"
       /\ FileAt(exePath).data = Carrier(OrigBase, lastRename)

\* the last 24 bytes of the buffer
Tail24 ==
    SubSeq(FileAt(exePath).data, Len(FileAt(exePath).data) - footerSize + 1,
           Len(FileAt(exePath).data))

\* byte k (1..4) of the little-endian encoding of a uint32
ByteLE(v, k) == {i \in 0..7 : (8 * (k - 1) + i) \in v}

KeysOf(v) == IF v.t = "obj" THEN {v.m[i].k : i \in 1..Len(v.m)} ELSE {}

E2EKeysOf(v) ==
    IF v.t = "obj"
    THEN UNION {KeysOf(v.m[i].v) : i \in {i \in 1..Len(v.m) : v.m[i].k = e2eTag}}
    ELSE {}

HasUnknownKey(v) ==
    ~(KeysOf(v) \subseteq {e2eTag}) \/ ~(E2EKeysOf(v) \subseteq {beaconUrlTag})

Parsed == scan.pr.err # "none"

\* C19: unknown keys. For every document that has a key other than "e2e" at
\* the top level, or a key other than "beaconUrl" inside the object under
\* "e2e", LoadConfigFromFile returns an error.
C19_UnknownKeysRejected ==
    (Parsed /\ scan.doc.wf /\ HasUnknownKey(scan.doc.v))
    => scan.pr.err # "nil"

\* the white space of JSON
OnlySpace(bytes) == \A k \in 1..Len(bytes) : bytes[k] \in Space

\* C20 as stated: every input with any bytes after the first complete JSON
\* value is an error; an input is accepted only if the first document is
\* followed by nothing.
C20_AnyTrailingBytesRejected ==
    (Parsed /\ scan.doc.wf /\ scan.doc.post # <<>>)
    => scan.pr.err # "nil"

\* C20, amended: every input with a byte that is not white space after the
\* first complete JSON value is an error, whether that byte begins a second
\* value or not; an input is accepted only if the first document is followed
\* by nothing but space, tab, carriage return and line feed, and then the
\* result is the one of the document alone.
C20_TrailingContentRejected ==
    (Parsed /\ scan.doc.wf)
    => /\ ~OnlySpace(scan.doc.post) => scan.pr.err # "nil"
       /\ (scan.pr.err = "nil" /\ scan.doc.post # <<>>)
          => /\ OnlySpace(scan.doc.post)
             /\ scan.pr = parseConfigJSON(scan.doc.body)

\* the document of the test followed by a second document has been refused
\* as trailing data
C20_Witness ==
    /\ Parsed
    /\ scan.doc.wf
    /\ ~HasUnknownKey(scan.doc.v)
    /\ scan.doc.post = <<32>> \o Render(JObj(<<Member(anotherKey, JOne)>>))
    /\ scan.pr.err = "config is not valid JSON: trailing data"

\* a document followed by a line feed has been accepted
C20_WitnessNewline ==
    /\ Parsed
    /\ scan.doc.wf
    /\ scan.doc.post = <<10>>
    /\ scan.pr.err = "nil"
    /\ ~scan.pr.E2E.nil

\* the file of the last call of EmbedConfigFileIntoExecutable could not be
\* read or the parser refused its bytes
FileRefused == ncalls > 0 /\ scan.pr.err \notin {"none", "nil"}

\* the file of the last call has an unknown field, bytes other than white
\* space after its value, or is no JSON value
FileUnfit ==
    /\ ncalls > 0
    /\ \/ ~scan.doc.wf
       \/ HasUnknownKey(scan.doc.v)
       \/ ~OnlySpace(scan.doc.post)

\* C21: validation precedes mutation. If the configuration file cannot be
\* read or the strict parser rejects its content (unknown field, trailing
\* tokens, malformed JSON), EmbedConfigFileIntoExecutable has returned an
\* error, the target has the bytes and the mode it had at the call, the
\* directory has the names it had, and no staged file was created.
C21_ValidationBeforeMutation ==
    /\ FileUnfit => FileRefused
    /\ FileRefused
       => /\ inst[1].pc = "idle"
          /\ inst[1].err \in {"read config file", "invalid config"}
          /\ FileAt(exePath).data = entry[1].data
          /\ FileAt(exePath).mode = entry[1].mode
          /\ DOMAIN dir = entry[1].names
          /\ ~staged[1]
          /\ inodes = (dir[exePath] :> FileAt(exePath))

\* the file with the unknown field "extra" has been refused, after an
\* earlier call had installed a document
C21_Witness ==
    /\ hist # <<>>
    /\ scan.doc.v = UnknownFieldValue
    /\ scan.pr.err = "config is not valid JSON: json: unknown field"
    /\ inst[1].err = "invalid config"
    /\ FileAt(exePath).data = LastInstall.out

\* a file that could not be read
C21_WitnessUnread ==
    /\ scan.pr.err = "read config file"
    /\ inst[1].err = "read config file"
    /\ FileAt(exePath).data = orig.data

\* C22: the file's bytes are what is stored. For every configuration file
\* whose bytes R the strict parser accepts, the installer is handed R itself,
\* and after EmbedConfigFileIntoExecutable has returned nil the payload a
\* load returns is R byte for byte, white space and final line feed
\* included, and LoadEmbeddedConfigFromExecutable returns, without error,
\* the Config that parsing R yields.
C22_FileBytesVerbatim ==
    /\ inst[1].pc # "idle" => inst[1].config = DocBytes(scan.doc)
    /\ (Idle /\ ncalls > 0 /\ inst[1].err = "nil" /\ scan.cfg.err # "none")
       => LET R == DocBytes(scan.doc) IN
          /\ LastInstall.config = R
          /\ ld.res = Result(Bytes(R), TRUE, "nil")
          /\ scan.pr = parseConfigJSON(R)
          /\ scan.cfg = scan.pr
          /\ scan.cfg.err = "nil"
          /\ ~scan.cfg.nil

\* the indented document of the test, with its final line feed, has been
\* installed over a carrier and loaded: the payload is not the value written
\* out again, and the Config has the beacon URL
C22_Witness ==
    /\ Idle /\ inst[1].err = "nil"
    /\ ~NoTrailer(orig.data)
    /\ scan.doc.body = PrettyBody
    /\ scan.doc.post = <<10>>
    /\ ld.res.ok
    /\ ld.res.raw.b = PrettyBody \o <<10>>
    /\ ld.res.raw.b # Render(scan.doc.v)
    /\ scan.cfg = Config(E2EConfig(ExampleUrl))

\* the three cases in which a file counts as holding no configuration
AbsenceCase(data) ==
    \/ Len(data) < footerSize
    \/ MagicAtTail(data) # footerMagic
    \/ LengthField(data) = {}

PublicLoaded == scan.cfg.err # "none"

\* C23: the public loader's absence. LoadEmbeddedConfigFromExecutable returns
\* (nil, nil) exactly when the file is shorter than 24 bytes, its last 24
\* bytes do not begin with the signature, or the length field is zero; for a
\* file whose trailer is present with a non-zero length it returns a Config
\* or an error, never (nil, nil).
C23_NilNilIsAbsence ==
    PublicLoaded
    => /\ (scan.cfg.nil /\ scan.cfg.err = "nil")
             <=> AbsenceCase(FileAt(exePath).data)
       /\ scan.cfg.nil <=> scan.cfg.err # "nil" \/ AbsenceCase(FileAt(exePath).data)

\* a carrier whose payload passes the checksum but is no JSON value: the
\* result is an error of the parser
C23_Witness ==
    /\ PublicLoaded
    /\ ld.res.ok
    /\ scan.cfg.nil
    /\ scan.cfg.err = "config is not valid JSON: syntax"

\* a trailer of length zero loads as (nil, nil)
C23_WitnessAbsent ==
    /\ PublicLoaded
    /\ SignedTrailer(FileAt(exePath).data)
    /\ LengthField(FileAt(exePath).data) = {}
    /\ scan.cfg = NilConfig("nil")

\* the bytes of the staged file of the call in progress
StagedData == inodes[dir[inst[1].tmpPath]].data

\* the first baseSize bytes of the file the call found
KeptBase == SubSeq(entry[1].data, 1, inst[1].baseSize)

NewTrailer ==
    Trailer(footerMagic, Len(inst[1].config), ChecksumIEEE(inst[1].config))

\* the staged file grows in order, and the path holds one complete content
StagedInOrder ==
    /\ inst[1].pc = "copy" => StagedData = <<>>
    /\ inst[1].pc = "writeconfig"
          => StagedData = KeptBase /\ Len(StagedData) = inst[1].baseSize
    /\ inst[1].pc = "writefooter" => StagedData = KeptBase \o inst[1].config
    /\ inst[1].pc \in {"sync", "close", "rename"}
          => /\ StagedData = KeptBase \o inst[1].config \o NewTrailer
             /\ Len(StagedData)
                   = inst[1].baseSize + Len(inst[1].config) + footerSize
    /\ inst[1].pc = "rename" => inst[1].tmp = NoIno
    /\ inst[1].pc \notin {"idle", "finish"}
          => FileAt(exePath).data = entry[1].data
    /\ inst[1].pc = "finish"
          => FileAt(exePath).data = KeptBase \o inst[1].config \o NewTrailer

\* a step is reached only from the step before it, and the path is given a
\* file only by the rename
StepsInOrder ==
    /\ \A s \in {<<"copy", "writeconfig">>, <<"writeconfig", "writefooter">>,
                 <<"writefooter", "sync">>, <<"sync", "close">>,
                 <<"close", "rename">>, <<"rename", "finish">>} :
          (inst'[1].pc = s[2] /\ inst[1].pc # s[2]) => inst[1].pc = s[1]
    /\ dir'[exePath] # dir[exePath]
          => /\ inst[1].pc = "rename"
             /\ dir'[exePath] = dir[inst[1].tmpPath]
             /\ inodes'[dir'[exePath]].data
                   = KeptBase \o inst[1].config \o NewTrailer

\* C24: install step ordering. The rename is reached only after exactly
\* baseSize base bytes, then the payload, then the 24-byte trailer have been
\* written to the staged file, and the staged file has been synced and
\* closed; in every state of an install, so wherever the process might stop,
\* the target path holds either the complete content the call found or the
\* complete new content.
C24_StepOrdering == []StagedInOrder /\ [][StepsInOrder]_vars

\* a second install over the carrier the first one left is about to rename:
\* the staged file is complete and closed, shorter base than the file found,
\* and the path still holds the content the call found
C24_Witness ==
    /\ hist # <<>>
    /\ inst[1].pc = "rename"
    /\ inst[1].tmp = NoIno
    /\ inst[1].baseSize < Len(entry[1].data)
    /\ inst[1].baseSize > 0
    /\ StagedData = KeptBase \o inst[1].config \o NewTrailer
    /\ FileAt(exePath).data = entry[1].data
    /\ FileAt(exePath).data # StagedData

\* the bytes in front of the trailer that the length field counts
PayloadOf(data) ==
    SubSeq(data, Len(data) - footerSize - Int64Of(LengthField(data)) + 1,
           Len(data) - footerSize)

\* the one outcome of each file, by the first condition in order that holds
LoadOutcome(data) ==
    IF Len(data) < footerSize THEN Absent
    ELSE IF MagicAtTail(data) # footerMagic THEN Absent
    ELSE IF LengthField(data) = {} THEN Absent
    ELSE IF Int64Of(LengthField(data)) > maxConfigSize
    THEN Result(Nil, FALSE, "embedded config too large")
    ELSE IF Len(data) - footerSize - Int64Of(LengthField(data)) < 0
    THEN Result(Nil, FALSE, "embedded config offset underflow")
    ELSE IF ChecksumIEEE(PayloadOf(data)) # ChecksumField(data)
    THEN Result(Nil, FALSE, "embedded config checksum mismatch")
    ELSE Result(Bytes(PayloadOf(data)), TRUE, "nil")

\* C25: loader check precedence. loadEmbeddedConfigData decides in a fixed
\* order: size below 24 (absent), signature mismatch (absent), length zero
\* (absent, whatever the checksum field), length above 262144 (too large,
\* also when the length exceeds the file), negative offset (underflow),
\* checksum mismatch, otherwise the payload. Every file has exactly one
\* outcome, the one of the first condition that holds, and it depends on the
\* file's bytes alone.
C25_CheckPrecedence ==
    Loaded
    => /\ ld.res = LoadOutcome(FileAt(exePath).data)
       /\ ld.res = loadEmbeddedConfigData(orig.data)
       /\ ld.res.ok <=> ld.res.err = "nil" /\ ~ld.res.raw.nil

\* a length field above the limit that also exceeds the file, under a
\* checksum field that matches nothing: the outcome is "too large", neither
\* underflow nor checksum mismatch
C25_Witness ==
    /\ Loaded
    /\ SignedTrailer(FileAt(exePath).data)
    /\ Int64Of(LengthField(FileAt(exePath).data)) > maxConfigSize
    /\ Int64Of(LengthField(FileAt(exePath).data))
          > Len(FileAt(exePath).data) - footerSize
    /\ ChecksumField(FileAt(exePath).data) = {}
    /\ ld.res = Result(Nil, FALSE, "embedded config too large")

\* the last call attempted the seek and the read of the trailer, and one of
\* them failed: by itself, or because the file is shorter than the size
\* passed in
ScanIOFailed ==
    /\ scan.io.size >= footerSize
    /\ \/ scan.io.fail \in {"seek", "read"}
       \/ scan.io.size > Len(FileAt(exePath).data)

ScanIOErrs == {"seek footer", "read footer"}

\* C26: scanner I/O failures are hard errors. If the seek to size - 24 or
\* the read of the 24 trailer bytes fails, also when the read is short
\* because the file is shorter than the size passed in, readFooter returns
\* an error that is not the no-embedded-config sentinel, the loader returns
\* that error and not (nil, false, nil), and executableBaseSizeAndMode
\* returns it and not the full size as base.
C26_ScanFailuresAreErrors ==
    ScanIOFailed
    => /\ scan.rf.err # "none"
            => scan.rf.err \in ScanIOErrs /\ scan.rf.ft = ZeroFooter
       /\ Loaded
            => /\ ld.res.err \in ScanIOErrs
               /\ ld.res # Absent
               /\ ~ld.res.ok /\ ld.res.raw = Nil
       /\ scan.bs.err # "none"
            => scan.bs.err \in ScanIOErrs /\ scan.bs.baseSize = 0

\* the loader has been given the size of a carrier that has since lost its
\* last byte: the read of the trailer is short
C26_Witness ==
    /\ scan.io.fail = "none"
    /\ scan.io.size = Len(FileAt(exePath).data) + 1
    /\ scan.io.size > footerSize
    /\ Loaded
    /\ ld.res = Result(Nil, FALSE, "read footer")

\* the seek has failed inside executableBaseSizeAndMode on a file that has no
\* signature at its end
C26_WitnessSeek ==
    /\ scan.io.fail = "seek"
    /\ scan.io.size = Len(FileAt(exePath).data)
    /\ SignedTrailer(FileAt(exePath).data) = FALSE
    /\ scan.bs.err = "seek footer"

\* the file ends in a signed trailer whose length field does not exceed the
\* bytes in front of it
Strippable(data) ==
    SignedTrailer(data) /\ Int64Of(LengthField(data)) <= Len(data) - footerSize

\* the bytes in front of what the length field counts
StripBase(data) ==
    SubSeq(data, 1, Len(data) - footerSize - Int64Of(LengthField(data)))

\* C27: the installer strips by the trailer's length alone. When the last 24
\* bytes of the target carry the signature and the length field L is at most
\* size - 24, the base size is size - 24 - L and an install keeps exactly the
\* first size - 24 - L bytes as base; neither the old payload's checksum nor
\* the 262144 limit nor L = 0 is looked at. An install of a valid payload P
\* over such a file succeeds, leaves base, P and P's trailer, and a load then
\* returns P.
C27_StripsByLength ==
    /\ (Strippable(FileAt(exePath).data) /\ scan.bs.err # "none")
          => scan.bs = [baseSize |-> Len(StripBase(FileAt(exePath).data)),
                        mode |-> FileAt(exePath).mode, err |-> "nil"]
    /\ \A i \in DOMAIN hist :
          Strippable(hist[i].pre)
             => hist[i].out = Carrier(StripBase(hist[i].pre), hist[i].config)
    /\ (Idle /\ ncalls > 0) => inst[1].err = "nil" /\ Len(hist) = ncalls
    /\ (Idle /\ hist # <<>> /\ Loaded)
          => ld.res = Result(Bytes(LastInstall.config), TRUE, "nil")

\* a payload has been installed over the carrier of 262145 bytes that the
\* loader refuses as too large, and loaded
C27_WitnessOversized ==
    /\ Int64Of(LengthField(orig.data)) > maxConfigSize
    /\ Strippable(orig.data)
    /\ Idle /\ Len(hist) = 1 /\ Loaded
    /\ Len(FileAt(exePath).data) = 1 + Len(LastInstall.config) + footerSize
    /\ ld.res.ok

\* a payload has been installed over a trailer of length zero with bytes in
\* front of it, and loaded
C27_Witness ==
    /\ Strippable(orig.data)
    /\ LengthField(orig.data) = {}
    /\ Len(orig.data) > footerSize
    /\ Idle /\ Len(hist) = 1 /\ Loaded /\ ld.res.ok
    /\ LastInstall.out = StripBase(orig.data) \o LastInstall.config
                            \o Trailer(footerMagic, Len(LastInstall.config),
                                       ChecksumIEEE(LastInstall.config))

\* two payloads have been installed over a payload that fails its checksum
C27_WitnessCorrupt ==
    /\ Strippable(orig.data)
    /\ loadEmbeddedConfigData(orig.data).err = "embedded config checksum mismatch"
    /\ Idle /\ Len(hist) = 2 /\ Loaded /\ ld.res.ok

\* the payload offset the loader computes on the file at the path
LoaderOffset ==
    loadChecks(readFooter(FileAt(exePath).data, Len(FileAt(exePath).data)),
               Len(FileAt(exePath).data)).off

\* C28: base size and payload offset agree. On every file on which
\* loadEmbeddedConfigData returns a payload, the base size that
\* executableBaseSizeAndMode returns is the offset the loader read the
\* payload at, size - 24 - length: the payload begins where the base ends.
C28_BaseIsPayloadOffset ==
    (Loaded /\ ld.res.ok /\ scan.bs.err # "none")
    => /\ scan.bs.err = "nil"
       /\ scan.bs.baseSize = LoaderOffset
       /\ scan.bs.baseSize
             = Len(FileAt(exePath).data) - footerSize
                  - Int64Of(LengthField(FileAt(exePath).data))
       /\ Int64Of(LengthField(FileAt(exePath).data)) = Len(ld.res.raw.b)
       /\ SubSeq(FileAt(exePath).data, scan.bs.baseSize + 1,
                 scan.bs.baseSize + Len(ld.res.raw.b)) = ld.res.raw.b

\* both functions have run on a carrier of a document behind two base bytes
C28_Witness ==
    /\ Loaded /\ ld.res.ok
    /\ scan.cfg.err = "nil"
    /\ scan.bs.err = "nil"
    /\ scan.bs.baseSize = 2
    /\ LoaderOffset = 2
    /\ Len(ld.res.raw.b) > 2

\* C29: no leftover staging file. After EmbedConfigDataIntoExecutable has
\* returned, with nil or with an error, the directory has exactly the names
\* it had before the call: the staged file is gone, the deferred cleanup has
\* removed nothing else, and the target path still exists. While the call
\* runs, the only name added is the one of its staged file.
C29_NoLeftover ==
    /\ (inst[1].pc = "idle" /\ ncalls > 0)
          => /\ DOMAIN dir = entry[1].names
             /\ DOMAIN dir = {exePath, cfgPath}
             /\ TmpNames \cap DOMAIN dir = {}
    /\ inst[1].pc # "idle"
          => /\ entry[1].names \subseteq DOMAIN dir
             /\ (DOMAIN dir) \ entry[1].names \subseteq {inst[1].tmpPath}
    /\ exePath \in DOMAIN dir
    /\ cfgPath \in DOMAIN dir /\ inodes[dir[cfgPath]] = cfgFile
    /\ Idle => DOMAIN inodes = {dir[n] : n \in DOMAIN dir}

\* the second install has returned nil after staging a file, next to the
\* configuration file
C29_Witness ==
    /\ Idle /\ inst[1].err = "nil" /\ staged[1]
    /\ Len(hist) = 2
    /\ DOMAIN dir = {exePath, cfgPath}
    /\ FileAt(exePath).data = LastInstall.out

\* a call has returned an error after it had staged a file
C29_WitnessError ==
    /\ Idle /\ staged[1]
    /\ inst[1].err = "sync temp executable"
    /\ DOMAIN dir = {exePath, cfgPath}

\* a step of the loader or of LoadEmbeddedConfigFromExecutable, and the step
\* of an install that calls executableBaseSizeAndMode
ReadStep ==
    \/ inst' = inst /\ (ld' # ld \/ scan'.cfg # scan.cfg)
    \/ inst[1].pc = "base"

\* what the path holds between installs: what the last install left, or the
\* file the behaviour started from
SettledFile ==
    IF hist = <<>> THEN orig
    ELSE [data |-> LastInstall.out, mode |-> LastInstall.mode]

\* C30: loads are read-only. No step of loadEmbeddedConfigData, of
\* LoadEmbeddedConfigFromExecutable or of executableBaseSizeAndMode changes a
\* file's bytes, size or mode, or creates or removes a file. Between two
\* installs, after any number of loads, the path holds what the last install
\* left, and the result a load has returned is the result of loading the
\* path again.
C30_LoadReadOnly ==
    /\ [](Idle => /\ FileAt(exePath) = SettledFile
                  /\ DOMAIN dir = {exePath}
                  /\ DOMAIN inodes = {dir[exePath]})
    /\ []((Idle /\ PublicLoaded)
             => /\ ld.res = loadEmbeddedConfigData(FileAt(exePath).data)
                /\ scan.cfg
                      = LoadEmbeddedConfigFromExecutable(FileAt(exePath).data))
    /\ [][ReadStep => dir' = dir /\ inodes' = inodes]_vars

\* a load after the second install of a document: the path holds what that
\* install left, with the mode of the original file
C30_Witness ==
    /\ Idle /\ PublicLoaded
    /\ Len(hist) = 2
    /\ ld.res.ok /\ ~scan.cfg.nil
    /\ FileAt(exePath) = [data |-> LastInstall.out, mode |-> orig.mode]

====
